---- MODULE Spec2Model ----
(***************************************************************************)
(* State-machine model of the browser-driven availability scrapers of     *)
(* hopr-alerts and of the loops that drive them.                           *)
(*                                                                         *)
(*   impl = "script"    scripts/check-bbb.ts: main, scrapeDisney           *)
(*   impl = "lib"       app/lib/bbb-scraper.ts driven by api/bbb/cron GET  *)
(*   impl = "lib2"      the later bbb-scraper (two-way month navigation)   *)
(*                      driven by runBBBScraper / processBBBAlert          *)
(*   impl = "opentable" app/lib/scraper.ts driven by processHOPRAlert      *)
(*                                                                         *)
(* The third-party page is the environment: every answer it gives to a    *)
(* query of the scraper (a label, a visibility test, a click, a button    *)
(* list) is chosen nondeterministically at the step that asks for it.     *)
(***************************************************************************)
EXTENDS Naturals, Integers, Sequences, FiniteSets, TLC

VARIABLES
  impl,         \* which scraper / driver pair this run executes
  secret,       \* process.env.CRON_SECRET is set
  alerts,       \* the batch of targets the driver fetched
  pc,           \* position of the driver
  idx,          \* index of the target being processed (1-based)
  attempt,      \* the retry loop's attempt counter
  started,      \* scrape attempts started for the current target
  failed,       \* scrape attempts of the current target that threw
  waits,        \* backoff sleeps done for the current target
  lastError,    \* main's lastError (NoError when null)
  slots,        \* main's slots variable
  reports,      \* bodies handed to reportResults, in order
  history,      \* rows inserted into the check-history table, in order
  apc,          \* position inside the scrape attempt
  browser,      \* the attempt's browser handle (NoBrowser when undefined)
  live,         \* browser processes launched and not yet closed
  blocked,      \* the document the attempt loaded holds a block indicator
  err,          \* the error the attempt is throwing (NoError when none)
  displayed,    \* absolute month the calendar widget shows
  navI,         \* selectDate's loop counter i
  navEnd,       \* how the month loop ended
  clicked,      \* the day control selectDate clicked
  dateSelected, \* selectDate's result / dateClicked
  trace,        \* wizard steps entered by this attempt, in order
  pIdx,         \* index of the period being checked
  allSlots,     \* slots collected by the attempt so far
  results,      \* bbb-scraper's per-period results
  shown,        \* what the page showed for each period checked, in order
  fn,           \* the pure function applied last ("idle" in a scraper run)
  arg,          \* the input it is applied to
  out,          \* the value it returned
  notified,     \* keys of the rows of the notifications table
  emails,       \* keys of the emails handed to the mail service, in order
  todo,         \* keys the running notification call has still to handle
  mpc,          \* position of the running notification call
  calls,        \* notification calls / server requests made so far
  serverSecret, \* process.env.CRON_SECRET of the server (Null when unset)
  active,       \* the is_active column, by alert id
  reqs          \* the requests the server is handling, by handler

vars == << impl, secret, alerts, pc, idx, attempt, started, failed, waits, lastError,
           slots, reports, history, apc, browser, live, blocked, err, displayed, navI,
           navEnd, clicked, dateSelected, trace, pIdx, allSlots, results,
           shown, fn, arg, out, notified, emails, todo, mpc, calls,
           serverSecret, active, reqs >>

driverVars == << pc, idx, attempt, started, failed, waits, lastError, slots, reports,
                history >>
calVars == << displayed, navI, navEnd, clicked, dateSelected >>
outVars == << pIdx, allSlots, results, shown >>
fnVars == << fn, arg, out >>
mailVars == << notified, emails, todo, mpc, calls >>
serverVars == << serverSecret, active, reqs >>
fixedVars == << impl, secret, alerts, fnVars, mailVars, serverVars >>

-----------------------------------------------------------------------------
(* Bounds of the model *)

MaxBatch == 2
MaxMonth == 2
MaxCalls == 2

(* Program constants *)

MAX_RETRIES == 3
ScriptMaxNavigations == 6
LibMaxNavigations == 12

-----------------------------------------------------------------------------
(* Values *)

Impls == {"script", "lib", "lib2", "opentable"}
BBBImpls == {"script", "lib", "lib2"}
LibImpls == {"lib", "lib2"}

NoError == "<null>"
NoBrowser == << 0, 0 >>

Months == 0 .. MaxMonth

\* Error messages of the failures an attempt can throw.  The two literals
\* thrown by the scrapers themselves are kept apart; Playwright's rejections
\* are a timeout or a closed target.
E_timeout == "Timeout 30000ms exceeded"
E_closed == "Target page, context or browser has been closed"
E_launch == "browserType.launch: Failed to launch"
E_blocked == "Access blocked by Disney - possible bot detection"
E_dateScript == "Failed to select date"
E_dateLib == "Failed to select target date"
E_context == E_closed
E_initScript == E_closed
E_newPage == E_closed
E_goto == E_timeout
E_probe == E_closed
E_label == E_timeout
E_click == E_timeout
E_query == E_closed
E_next == E_timeout
E_count == E_closed
E_party == E_timeout

\* One alert of the batch: the first asks for two periods, the others for
\* one.  Every alert asks for the middle month of the
\* modelled calendar range, so the widget can open before, at or after it.
\* The window bounds come from columns of type time: "HH:MM:SS".
AlertOf(i) ==
  [ id |-> i,
    target_month |-> 1,
    party_size |-> 4,
    window_start |-> << 16, 0, 0 >>,
    window_end |-> << 20, 0, 0 >>,
    time_preferences |-> IF i = 1 THEN << "morning", "evening" >>
                                  ELSE << "afternoon" >> ]

Batch(n) == [ i \in 1 .. n |-> AlertOf(i) ]

\* Rendered buttons: text is a time (h, m, mer) or something else;
\* disabled is what getAttribute('disabled') returns; aria is what
\* getAttribute('aria-disabled') returns; cls tells whether the class
\* attribute contains "disabled".
Null == "<null>"
TimeText(h, m, mer) == [ kind |-> "time", h |-> h, m |-> m, mer |-> mer ]
LabelText == [ kind |-> "label", h |-> 0, m |-> 0, mer |-> "" ]
Button(text, disabled, aria, cls) ==
  [ text |-> text, disabled |-> disabled, aria |-> aria, cls |-> cls ]

Panels ==
  { << >>,
    << Button(LabelText, Null, Null, FALSE),
       Button(TimeText(7, 30, "PM"), Null, Null, FALSE),
       Button(TimeText(9, 30, "PM"), "", Null, FALSE) >>,
    << Button(TimeText(9, 0, "AM"), Null, "false", FALSE),
       Button(TimeText(1, 15, "PM"), Null, "true", FALSE),
       Button(TimeText(12, 30, "PM"), Null, Null, TRUE) >> }

\* JavaScript truthiness of an attribute value.
Truthy(v) == v # Null /\ v # ""

-----------------------------------------------------------------------------
(* Day controls of the calendar widget *)

\* label: "T" the control's visible text is exactly the target day number,
\*        "T+" it merely contains the target day's digits, "X" neither.
\* dataDate: "target" the data-date attribute is the target date, "T+" it is
\*        another date whose text contains the target day's digits.
\* hits: which of the later bbb-scraper's four daySelectors match the control.
Control(label, tag, disabled, aria, dataDate, hits) ==
  [ label |-> label, tag |-> tag, disabled |-> disabled, aria |-> aria,
    dataDate |-> dataDate, hits |-> hits ]

NoControl == Control("none", "none", Null, Null, "none", {})

DayGrids ==
  { << >>,
    << Control("X", "button", Null, Null, "none", {}),
       Control("T", "button", Null, Null, "target", {1, 2, 4}) >>,
    << Control("T", "button", "", Null, "none", {4}) >>,
    << Control("T", "button", Null, "true", "none", {}),
       Control("T+", "button", Null, Null, "T+", {2, 4}) >>,
    << Control("T", "td", Null, Null, "none", {}) >> }

\* Playwright's click without force waits for the element to be enabled and
\* times out on an element that carries the disabled attribute.
ClickRejects(c) == c.disabled # Null

\* First index of s whose element satisfies P, 0 when none does.
FirstIndex(s, P(_)) ==
  IF \E i \in 1 .. Len(s) : P(s[i])
    THEN CHOOSE i \in 1 .. Len(s) : P(s[i]) /\ \A j \in 1 .. i - 1 : ~P(s[j])
    ELSE 0

-----------------------------------------------------------------------------
(* Slot extraction *)

\* check-bbb.ts checkTimePeriod: !isDisabled && ariaDisabled !== 'true'
\*                               && !className.includes('disabled')
ScriptAvailable(b) == ~Truthy(b.disabled) /\ b.aria # "true" /\ ~b.cls

\* bbb-scraper.ts and scraper.ts: isDisabled === null && ...
LibAvailable(b) == b.disabled = Null /\ b.aria # "true" /\ ~b.cls

IsSlotButton(b) ==
  /\ b.text.kind = "time"
  /\ IF impl = "script" THEN ScriptAvailable(b) ELSE LibAvailable(b)

\* Mutant: every slot is tagged "afternoon" whatever period was asked.
ScanButtonsMistagged(buttons, period) ==
  LET free == SelectSeq(buttons, IsSlotButton)
  IN  [ k \in 1 .. Len(free) |-> [ time |-> free[k].text, period |-> "afternoon" ] ]

RECURSIVE ScanButtons(_, _)
ScanButtons(buttons, period) ==
  IF buttons = << >> THEN << >>
  ELSE LET b == Head(buttons)
           rest == ScanButtons(Tail(buttons), period)
       IN  IF IsSlotButton(b)
             THEN << [ time |-> b.text, period |-> period ] >> \o rest
             ELSE rest

-----------------------------------------------------------------------------
(* Initial state *)

Init ==
  /\ impl \in Impls
  /\ secret \in BOOLEAN
  /\ \E n \in 0 .. MaxBatch : alerts = Batch(n)
  /\ pc = "main"
  /\ idx = 1
  /\ attempt = 1
  /\ started = 0
  /\ failed = 0
  /\ waits = 0
  /\ lastError = NoError
  /\ slots = << >>
  /\ reports = << >>
  /\ history = << >>
  /\ apc = "idle"
  /\ browser = NoBrowser
  /\ live = {}
  /\ blocked = FALSE
  /\ err = NoError
  /\ displayed = 0
  /\ navI = 0
  /\ navEnd = "none"
  /\ clicked = NoControl
  /\ dateSelected = FALSE
  /\ trace = << >>
  /\ pIdx = 1
  /\ allSlots = << >>
  /\ results = << >>
  /\ shown = << >>
  /\ fn = "idle"
  /\ arg = Null
  /\ out = Null
  /\ notified = {}
  /\ emails = << >>
  /\ todo = << >>
  /\ mpc = "idle"
  /\ calls = 0
  /\ serverSecret = Null
  /\ active = << >>
  /\ reqs = << >>

-----------------------------------------------------------------------------
(* One scrape attempt: scrapeDisney / scrapeBBBAvailability / scrapeOpenTable *)

Target == alerts[idx]

BrowserId == << idx, started >>

Active == apc \notin {"idle", "returned", "thrown"}

\* An awaited call rejects inside the try block: control goes to finally.
Throw(msg) ==
  /\ err' = msg
  /\ apc' = "finally"

Goes(stage) ==
  /\ apc' = stage
  /\ UNCHANGED err

\* firefox.launch / chromium.launch.  scrapeDisney launches before its try
\* block; the library scrapers launch inside it with browser still undefined.
Launch ==
  /\ apc = "launch"
  /\ \/ /\ browser' = BrowserId
        /\ live' = live \cup {BrowserId}
        /\ Goes("context")
     \/ /\ err' = E_launch
        /\ apc' = IF impl = "script" THEN "thrown" ELSE "finally"
        /\ UNCHANGED << browser, live >>
  /\ UNCHANGED << fixedVars, driverVars, blocked, calVars, trace, outVars >>

NewContext ==
  /\ apc = "context"
  /\ \/ Goes(IF impl = "script" THEN "initscript" ELSE "newpage")
     \/ Throw(E_context)
  /\ UNCHANGED << fixedVars, driverVars, browser, live, blocked, calVars, trace, outVars >>

AddInitScript ==
  /\ apc = "initscript"
  /\ \/ Goes("newpage")
     \/ Throw(E_initScript)
  /\ UNCHANGED << fixedVars, driverVars, browser, live, blocked, calVars, trace, outVars >>

NewPage ==
  /\ apc = "newpage"
  /\ \/ Goes("goto")
     \/ Throw(E_newPage)
  /\ UNCHANGED << fixedVars, driverVars, browser, live, blocked, calVars, trace, outVars >>

\* page.goto(..., waitUntil networkidle, timeout); the loaded widget opens on
\* a month of its own choosing, and the document may hold a block indicator
\* ("Access Denied", "blocked", "captcha").
Goto ==
  /\ apc = "goto"
  /\ \/ /\ displayed' \in Months
        /\ blocked' \in BOOLEAN
        /\ Goes(CASE impl = "script" -> "blockcheck"
                  [] impl \in LibImpls -> "selectDate"
                  [] OTHER -> "party")
     \/ /\ Throw(E_goto)
        /\ UNCHANGED << displayed, blocked >>
  /\ UNCHANGED << fixedVars, driverVars, browser, live, navI, navEnd, clicked,
                  dateSelected, trace, outVars >>

\* scrapeDisney only: page.content() includes a block marker.
BlockCheck ==
  /\ apc = "blockcheck"
  /\ IF blocked THEN Throw(E_blocked) ELSE Goes("probe")
  /\ UNCHANGED << fixedVars, driverVars, browser, live, blocked, calVars, trace, outVars >>

\* scrapeDisney only: the debug queries between the block check and step 1.
Probe ==
  /\ apc = "probe"
  /\ \/ Goes("selectDate")
     \/ Throw(E_probe)
  /\ UNCHANGED << fixedVars, driverVars, browser, live, blocked, calVars, trace, outVars >>

-----------------------------------------------------------------------------
(* selectDate *)

TargetMonth == Target.target_month

MaxNavigations ==
  IF impl = "script" THEN ScriptMaxNavigations ELSE LibMaxNavigations

\* What a click on the next / previous control can leave displayed: the
\* neighbouring month, or the same month when the widget does not react.
NextMonth(d) == {d} \cup (IF d < MaxMonth THEN {d + 1} ELSE {})
PrevMonth(d) == {d} \cup (IF d > 0 THEN {d - 1} ELSE {})

\* What reading the month/year label can give: the displayed month, an empty
\* text, a text that does not parse to a month, or a rejected read.
LabelReads == {"ok", "empty", "garbled", "throws"}

\* selectDate is entered.  check-bbb.ts first waits for any button and
\* returns false when none appears.
SelectDateEnter ==
  /\ apc = "selectDate"
  /\ trace' = Append(trace, "SelectDate")
  /\ \/ /\ Goes("nav")
        /\ UNCHANGED dateSelected
     \/ /\ impl = "script"
        /\ dateSelected' = FALSE
        /\ Goes("dateResult")
  /\ navI' = 0
  /\ UNCHANGED << fixedVars, driverVars, browser, live, blocked, displayed, navEnd,
                  clicked, outVars >>

\* Mutant: an iteration that did not reach the target month is not counted.
NextIterationUncounted ==
  /\ Goes("nav")
  /\ UNCHANGED << navI, navEnd >>

\* i++ and the loop test of the month loop; i is scoped to the loop and is
\* gone when the loop is left.
NextIteration ==
  IF navI + 1 < MaxNavigations
    THEN /\ navI' = navI + 1
         /\ Goes("nav")
         /\ UNCHANGED navEnd
    ELSE /\ navI' = 0
         /\ Goes("pickDay")
         /\ navEnd' = "exhausted"

FoundMonth ==
  /\ navEnd' = "match"
  /\ navI' = 0
  /\ Goes("pickDay")
  /\ UNCHANGED displayed

\* An exception leaves selectDate from inside the month loop.
NavThrow(msg) ==
  /\ Throw(msg)
  /\ navI' = 0
  /\ UNCHANGED << displayed, navEnd >>

\* check-bbb.ts: one iteration of for (i = 0; i < 6; i++).
ScriptNavStep ==
  /\ apc = "nav"
  /\ impl = "script"
  /\ \E label \in LabelReads :
       IF label = "ok" /\ displayed = TargetMonth
         THEN FoundMonth
         ELSE \/ \E d \in NextMonth(displayed) :
                   /\ displayed' = d
                   /\ NextIteration
              \/ /\ navEnd' = "break"
                 /\ navI' = 0
                 /\ Goes("pickDay")
                 /\ UNCHANGED displayed
  /\ UNCHANGED << fixedVars, driverVars, browser, live, blocked, clicked, dateSelected,
                  trace, outVars >>

\* bbb-scraper.ts: one iteration of for (i = 0; i < maxNavigations; i++).
LibNavStep ==
  /\ apc = "nav"
  /\ impl = "lib"
  /\ \E label \in LabelReads :
       CASE label = "throws" -> NavThrow(E_label)
         [] label = "empty" ->
              /\ NextIteration
              /\ UNCHANGED displayed
         [] label = "ok" /\ displayed = TargetMonth -> FoundMonth
         [] OTHER ->
              \/ \E d \in NextMonth(displayed) :
                   /\ displayed' = d
                   /\ NextIteration
              \/ NavThrow(E_click)
  /\ UNCHANGED << fixedVars, driverVars, browser, live, blocked, clicked, dateSelected,
                  trace, outVars >>

\* The later bbb-scraper: forward or backward, unreadable labels skipped.
Lib2NavStep ==
  /\ apc = "nav"
  /\ impl = "lib2"
  /\ \E label \in LabelReads :
       CASE label # "ok" ->
              /\ NextIteration
              /\ UNCHANGED displayed
         [] label = "ok" /\ displayed = TargetMonth -> FoundMonth
         [] OTHER ->
              \/ \E d \in (IF TargetMonth > displayed
                             THEN NextMonth(displayed)
                             ELSE PrevMonth(displayed)) :
                   /\ displayed' = d
                   /\ NextIteration
              \/ NavThrow(E_click)
  /\ UNCHANGED << fixedVars, driverVars, browser, live, blocked, clicked, dateSelected,
                  trace, outVars >>

ClickedDay(c) ==
  /\ clicked' = c
  /\ dateSelected' = TRUE
  /\ Goes("dateResult")

NoDay ==
  /\ dateSelected' = FALSE
  /\ Goes("dateResult")
  /\ UNCHANGED clicked

\* check-bbb.ts: forced click on the first [data-date*="day"] element, then on
\* the first td:has-text("day"); a rejected click falls to the next strategy.
ScriptDataDate(grid) == FirstIndex(grid, LAMBDA c : c.dataDate # "none")
ScriptTd(grid) ==
  FirstIndex(grid, LAMBDA c : c.tag = "td" /\ c.label \in {"T", "T+"})

ScriptPickDay ==
  /\ apc = "pickDay"
  /\ impl = "script"
  /\ \E grid \in DayGrids, ok2 \in BOOLEAN, ok3 \in BOOLEAN, okQuery \in BOOLEAN :
       CASE ScriptDataDate(grid) > 0 /\ ok2 -> ClickedDay(grid[ScriptDataDate(grid)])
         [] ~(ScriptDataDate(grid) > 0 /\ ok2) /\ ScriptTd(grid) > 0 /\ ok3 ->
              ClickedDay(grid[ScriptTd(grid)])
         [] OTHER ->
              IF okQuery
                THEN NoDay
                ELSE Throw(E_query) /\ UNCHANGED << clicked, dateSelected >>
  /\ UNCHANGED << fixedVars, driverVars, browser, live, blocked, displayed, navI, navEnd,
                  trace, outVars >>

\* The button scan shared by the library scrapers: exact label, disabled
\* attribute falsy, aria-disabled not "true"; a click that rejects is caught
\* and the scan goes on.
LibDayOk(c) ==
  /\ c.tag = "button"
  /\ c.label = "T"
  /\ ~Truthy(c.disabled)
  /\ c.aria # "true"
  /\ ~ClickRejects(c)

LibPickDay ==
  /\ apc = "pickDay"
  /\ impl = "lib"
  /\ \E grid \in DayGrids, okQuery \in BOOLEAN :
       CASE ~okQuery -> Throw(E_query) /\ UNCHANGED << clicked, dateSelected >>
         [] okQuery /\ FirstIndex(grid, LibDayOk) > 0 ->
              ClickedDay(grid[FirstIndex(grid, LibDayOk)])
         [] OTHER -> NoDay
  /\ UNCHANGED << fixedVars, driverVars, browser, live, blocked, displayed, navI, navEnd,
                  trace, outVars >>

\* The later bbb-scraper tries its four daySelectors first, each on the first
\* element it matches, then the button scan.
Lib2SelectorOk(grid, k) ==
  LET i == FirstIndex(grid, LAMBDA c : k \in c.hits)
  IN  /\ i > 0
      /\ ~Truthy(grid[i].disabled)
      /\ grid[i].aria # "true"
      /\ ~ClickRejects(grid[i])

Lib2SelectorPick(grid) ==
  LET k == CHOOSE k \in 1 .. 4 :
             /\ Lib2SelectorOk(grid, k)
             /\ \A j \in 1 .. k - 1 : ~Lib2SelectorOk(grid, j)
  IN  grid[FirstIndex(grid, LAMBDA c : k \in c.hits)]

Lib2PickDay ==
  /\ apc = "pickDay"
  /\ impl = "lib2"
  /\ \E grid \in DayGrids, okQuery \in BOOLEAN :
       CASE \E k \in 1 .. 4 : Lib2SelectorOk(grid, k) ->
              ClickedDay(Lib2SelectorPick(grid))
         [] (\A k \in 1 .. 4 : ~Lib2SelectorOk(grid, k)) /\ ~okQuery ->
              Throw(E_query) /\ UNCHANGED << clicked, dateSelected >>
         [] (\A k \in 1 .. 4 : ~Lib2SelectorOk(grid, k)) /\ okQuery
              /\ FirstIndex(grid, LibDayOk) > 0 ->
              ClickedDay(grid[FirstIndex(grid, LibDayOk)])
         [] OTHER -> NoDay
  /\ UNCHANGED << fixedVars, driverVars, browser, live, blocked, displayed, navI, navEnd,
                  trace, outVars >>

\* selectDate has returned (its loop counter and element handles are gone):
\* if (!dateSelected) throw new Error(...).  With the date selected the
\* wizard leaves the calendar, which nothing looks at again.
DateResult ==
  /\ apc = "dateResult"
  /\ IF dateSelected
       THEN Goes("advance1")
       ELSE Throw(IF impl = "script" THEN E_dateScript ELSE E_dateLib)
  /\ navI' = 0
  /\ navEnd' = "none"
  /\ displayed' = 0
  /\ clicked' = NoControl
  /\ blocked' = FALSE
  /\ UNCHANGED << fixedVars, driverVars, browser, live, dateSelected, trace,
                  outVars >>

-----------------------------------------------------------------------------
(* Wizard advance, guest count, periods *)

\* Mutant: the wizard is advanced twice and the guest step is skipped.
Advance1SkipsGuests ==
  /\ apc = "advance1"
  /\ \/ Goes("periods")
     \/ Throw(IF impl = "script" THEN E_query ELSE E_next)
  /\ UNCHANGED << fixedVars, driverVars, browser, live, blocked, calVars, trace, outVars >>

\* After the date: check-bbb.ts lists the buttons (a query that can reject)
\* and tries the advance labels inside try/catch; bbb-scraper.ts awaits
\* page.click('button:has-text("Next")'), which rejects when there is none.
Advance1 ==
  /\ apc = "advance1"
  /\ \/ Goes("guests")
     \/ Throw(IF impl = "script" THEN E_query ELSE E_next)
  /\ UNCHANGED << fixedVars, driverVars, browser, live, blocked, calVars, trace, outVars >>

\* setGuestCount: every strategy of check-bbb.ts sits in its own try/catch;
\* bbb-scraper.ts reads the counter and clicks with no handler.
SetGuestCount ==
  /\ apc = "guests"
  /\ trace' = Append(trace, "SetPartySize")
  /\ \/ Goes("advance2")
     \/ /\ impl \in LibImpls
        /\ \E m \in {E_label, E_click} : Throw(m)
  /\ UNCHANGED << fixedVars, driverVars, browser, live, blocked, calVars, outVars >>

Advance2 ==
  /\ apc = "advance2"
  /\ \/ Goes("periods")
     \/ /\ impl \in LibImpls
        /\ Throw(E_next)
  /\ UNCHANGED << fixedVars, driverVars, browser, live, blocked, calVars, trace, outVars >>

Period == Target.time_preferences[pIdx]

\* Mutant: the no-availability signature is not looked at.
checkTimePeriodScansAnyway(noAvail, panel, period) == ScanButtons(panel, period)

\* Mutant: the buttons are scanned before the signature is looked for.
PeriodOpsScanFirst(tab, noAvail) ==
  (IF tab THEN << "click tab" >> ELSE << >>) \o << "scan buttons", "count signature" >>

\* The page operations of one checkTimePeriod call that ran to its return,
\* in order: the tab is clicked when it is visible, the no-availability
\* signature is counted, and the buttons are scanned unless it was found.
PeriodOps(tab, noAvail) ==
  (IF tab THEN << "click tab" >> ELSE << >>)
    \o << "count signature" >>
    \o (IF noAvail THEN << >> ELSE << "scan buttons" >>)

\* What the page showed while one period was checked: whether the
\* no-availability signature was there, and the buttons it rendered; ops
\* are the operations the check performed on the page.
Shown(period, noAvail, panel, ops) ==
  [ period |-> period, noAvail |-> noAvail, panel |-> panel, ops |-> ops ]

\* checkTimePeriod once the page answered: the no-availability signature
\* short-circuits the button scan.
checkTimePeriod(noAvail, panel, period) ==
  IF noAvail THEN << >> ELSE ScanButtons(panel, period)

\* check-bbb.ts: for (const period of alert.time_preferences); a rejected
\* count() or $$() leaves checkTimePeriod and scrapeDisney.
ScriptCheckPeriod ==
  /\ apc = "periods"
  /\ impl = "script"
  /\ pIdx <= Len(Target.time_preferences)
  /\ trace' = Append(trace, Period)
  /\ \E tab \in BOOLEAN, noAvail \in BOOLEAN, panel \in Panels,
        fail \in {NoError, E_count, E_query} :
       IF fail # NoError
         THEN /\ Throw(fail)
              /\ UNCHANGED << pIdx, allSlots, shown >>
         ELSE /\ allSlots' = allSlots \o checkTimePeriod(noAvail, panel, Period)
              /\ shown' = Append(shown, Shown(Period, noAvail, panel,
                                              PeriodOps(tab, noAvail)))
              /\ pIdx' = pIdx + 1
              /\ Goes("periods")
  /\ UNCHANGED << fixedVars, driverVars, browser, live, blocked, calVars, results >>

\* Mutant: a period whose check failed leaves no entry in the result list.
LibCheckPeriodDropsFailed ==
  /\ apc = "periods"
  /\ impl \in LibImpls
  /\ pIdx <= Len(Target.time_preferences)
  /\ trace' = Append(trace, Period)
  /\ \E tab \in BOOLEAN, noAvail \in BOOLEAN, panel \in Panels,
        fail \in {NoError, E_click, E_count, E_query} :
       /\ results' = IF fail # NoError THEN results
                     ELSE Append(results,
                            [ period |-> Period,
                              slots |-> checkTimePeriod(noAvail, panel, Period),
                              error |-> NoError ])
       /\ shown' = IF fail # NoError THEN shown
                   ELSE Append(shown, Shown(Period, noAvail, panel,
                                            PeriodOps(tab, noAvail)))
  /\ pIdx' = pIdx + 1
  /\ Goes("periods")
  /\ UNCHANGED << fixedVars, driverVars, browser, live, blocked, calVars, allSlots >>

\* bbb-scraper.ts: each period inside try/catch; the error is recorded
\* against the period and the loop goes on.
LibCheckPeriod ==
  /\ apc = "periods"
  /\ impl \in LibImpls
  /\ pIdx <= Len(Target.time_preferences)
  /\ trace' = Append(trace, Period)
  /\ \E tab \in BOOLEAN, noAvail \in BOOLEAN, panel \in Panels,
        fail \in {NoError, E_click, E_count, E_query} :
       /\ results' = Append(results,
            IF fail # NoError
              THEN [ period |-> Period, slots |-> << >>, error |-> fail ]
              ELSE [ period |-> Period,
                     slots |-> checkTimePeriod(noAvail, panel, Period),
                     error |-> NoError ])
       /\ shown' = IF fail # NoError THEN shown
                   ELSE Append(shown, Shown(Period, noAvail, panel,
                                            PeriodOps(tab, noAvail)))
  /\ pIdx' = pIdx + 1
  /\ Goes("periods")
  /\ UNCHANGED << fixedVars, driverVars, browser, live, blocked, calVars, allSlots >>

\* The period loop is over: the attempt returns through finally.
PeriodsDone ==
  /\ apc = "periods"
  /\ pIdx > Len(Target.time_preferences)
  /\ Goes("finally")
  /\ UNCHANGED << fixedVars, driverVars, browser, live, blocked, calVars, trace, outVars >>

-----------------------------------------------------------------------------
(* scrapeOpenTable's steps *)

\* Party size first: waitFor and selectOption on the sticky widget's select.
OtPartySize ==
  /\ apc = "party"
  /\ trace' = Append(trace, "SetPartySize")
  /\ \/ Goes("datePicker")
     \/ Throw(E_party)
  /\ UNCHANGED << fixedVars, driverVars, browser, live, blocked, calVars, outVars >>

OtDatePicker ==
  /\ apc = "datePicker"
  /\ \/ Goes("otDate")
     \/ Throw(E_party)
  /\ UNCHANGED << fixedVars, driverVars, browser, live, blocked, calVars, trace, outVars >>

\* The day scan: exact label and a falsy disabled attribute.
OtDayOk(c) ==
  /\ c.tag = "button"
  /\ c.label = "T"
  /\ ~Truthy(c.disabled)
  /\ ~ClickRejects(c)

\* No month navigation; when no day was clicked the scraper logs
\* "using default" and goes on.
OtPickDate ==
  /\ apc = "otDate"
  /\ trace' = Append(trace, "SelectDate")
  /\ \E grid \in DayGrids, okQuery \in BOOLEAN :
       CASE ~okQuery ->
              /\ Throw(E_query)
              /\ UNCHANGED << clicked, dateSelected >>
         [] okQuery /\ FirstIndex(grid, OtDayOk) > 0 ->
              /\ clicked' = grid[FirstIndex(grid, OtDayOk)]
              /\ dateSelected' = TRUE
              /\ Goes("otExtract")
         [] OTHER ->
              /\ dateSelected' = FALSE
              /\ Goes("otExtract")
              /\ UNCHANGED clicked
  /\ UNCHANGED << fixedVars, driverVars, browser, live, blocked, displayed, navI, navEnd,
                  outVars >>

RECURSIVE OtScanButtons(_)
OtScanButtons(buttons) ==
  IF buttons = << >> THEN << >>
  ELSE LET b == Head(buttons)
           rest == OtScanButtons(Tail(buttons))
       IN  IF IsSlotButton(b)
             THEN << [ date |-> TargetMonth, time |-> b.text,
                       partySize |-> Target.party_size ] >> \o rest
             ELSE rest

OtExtract ==
  /\ apc = "otExtract"
  /\ trace' = Append(trace, "Extract")
  /\ \E noAvail \in BOOLEAN, panel \in Panels, fail \in {NoError, E_count, E_query} :
       IF fail # NoError
         THEN /\ Throw(fail)
              /\ UNCHANGED allSlots
         ELSE /\ allSlots' = IF noAvail THEN << >> ELSE OtScanButtons(panel)
              /\ Goes("finally")
  /\ UNCHANGED << fixedVars, driverVars, browser, live, blocked, calVars, pIdx, results,
                  shown >>

-----------------------------------------------------------------------------
(* finally { await browser.close() } *)

\* Mutants of the release: the browser is never closed; the browser is
\* closed at the end of the try block only.
NoClose(l, b) == l
CloseOnSuccess(l, b) == IF err = NoError THEN l \ {b} ELSE l

AfterClose(l, b) == l \ {b}

\* finally { await browser.close(); }: the page and what it showed go with
\* the browser.
Finally ==
  /\ apc = "finally"
  /\ live' = AfterClose(live, browser)
  /\ apc' = IF err = NoError THEN "returned" ELSE "thrown"
  /\ blocked' = FALSE
  /\ displayed' = 0
  /\ navEnd' = "none"
  /\ clicked' = NoControl
  /\ UNCHANGED << fixedVars, driverVars, browser, err, navI, dateSelected, trace,
                  outVars >>

AttemptStep ==
  \/ Launch
  \/ NewContext
  \/ AddInitScript
  \/ NewPage
  \/ Goto
  \/ BlockCheck
  \/ Probe
  \/ SelectDateEnter
  \/ ScriptNavStep
  \/ LibNavStep
  \/ Lib2NavStep
  \/ ScriptPickDay
  \/ LibPickDay
  \/ Lib2PickDay
  \/ DateResult
  \/ Advance1
  \/ SetGuestCount
  \/ Advance2
  \/ ScriptCheckPeriod
  \/ LibCheckPeriod
  \/ PeriodsDone
  \/ OtPartySize
  \/ OtDatePicker
  \/ OtPickDate
  \/ OtExtract
  \/ Finally

-----------------------------------------------------------------------------
(* filterSlotsByTimeWindow *)

\* The 12-hour to 24-hour hour conversion of scraper.ts.
Hours24(h, mer) ==
  IF mer = "PM" /\ h # 12 THEN h + 12
  ELSE IF mer = "AM" /\ h = 12 THEN 0
  ELSE h

\* Zero-padded clock strings "HH:MM" and "HH:MM:SS" are modelled by their
\* two or three numbers; JavaScript compares the strings character by
\* character, a proper prefix being the smaller string.
RECURSIVE StrLeq(_, _)
StrLeq(a, b) ==
  IF a = << >> THEN TRUE
  ELSE IF b = << >> THEN FALSE
  ELSE IF Head(a) # Head(b) THEN Head(a) < Head(b)
  ELSE StrLeq(Tail(a), Tail(b))

\* match[3]?.toUpperCase()
ToUpperCase(mer) ==
  CASE mer \in {"AM", "am"} -> "AM"
    [] mer \in {"PM", "pm"} -> "PM"
    [] OTHER -> mer

\* slotTime24 = `${hours padded to two digits}:${minutes}:00`
FilterTime24(t) == << Hours24(t.h, ToUpperCase(t.mer)), t.m, 0 >>

InWindow(slot, windowStart, windowEnd) ==
  LET slotTime24 == FilterTime24(slot.time)
  IN  StrLeq(windowStart, slotTime24) /\ StrLeq(slotTime24, windowEnd)

filterSlotsByTimeWindow(ss, windowStart, windowEnd) ==
  SelectSeq(ss, LAMBDA slot : InWindow(slot, windowStart, windowEnd))

-----------------------------------------------------------------------------
(* Drivers *)

\* A scrape function is called: its locals are fresh.
BeginAttempt ==
  /\ apc' = "launch"
  /\ browser' = NoBrowser
  /\ blocked' = FALSE
  /\ err' = NoError
  /\ displayed' = 0
  /\ navI' = 0
  /\ navEnd' = "none"
  /\ clicked' = NoControl
  /\ dateSelected' = FALSE
  /\ trace' = << >>
  /\ pIdx' = 1
  /\ allSlots' = << >>
  /\ results' = << >>
  /\ shown' = << >>
  /\ started' = started + 1
  /\ UNCHANGED live

\* The scrape function's promise has settled and was consumed: its locals
\* and the closed page are gone.  err keeps the rejection for the handler,
\* and allSlots keeps what the attempt had collected when it ended, until
\* the next attempt starts.
EndAttempt ==
  /\ apc' = "idle"
  /\ browser' = NoBrowser
  /\ blocked' = FALSE
  /\ displayed' = 0
  /\ navI' = 0
  /\ navEnd' = "none"
  /\ clicked' = NoControl
  /\ dateSelected' = FALSE
  /\ trace' = << >>
  /\ pIdx' = 1
  /\ results' = << >>
  /\ shown' = << >>
  /\ UNCHANGED << live, err, allSlots >>

attemptVars == << apc, browser, live, blocked, err, displayed, navI, navEnd, clicked,
                  dateSelected, trace, pIdx, allSlots, results, shown >>

(* check-bbb.ts main *)

\* Mutant: main goes on without the credential.
MainEntryUnchecked ==
  /\ pc = "main"
  /\ impl = "script"
  /\ pc' = "fetch"
  /\ UNCHANGED << fixedVars, idx, attempt, started, failed, waits, lastError,
                  slots, reports, history, attemptVars >>

\* if (!CRON_SECRET) process.exit(1)
MainEntry ==
  /\ pc = "main"
  /\ impl = "script"
  /\ pc' = IF secret THEN "fetch" ELSE "exit1"
  /\ UNCHANGED << fixedVars, idx, attempt, started, failed, waits, lastError,
                  slots, reports, history, attemptVars >>

\* GET /api/bbb/notify: a rejected fetch leaves main, a non-ok answer exits,
\* an empty list returns.
FetchAlerts ==
  /\ pc = "fetch"
  /\ \E answer \in {"ok", "not ok", "rejects"} :
       pc' = CASE answer = "rejects" -> "rejected"
               [] answer = "not ok" -> "exit1"
               [] OTHER -> IF Len(alerts) = 0 THEN "done" ELSE "for"
  /\ UNCHANGED << fixedVars, idx, attempt, started, failed, waits, lastError,
                  slots, reports, history, attemptVars >>

\* for (const alert of alerts) { let lastError = null; let slots = []; ...
ForAlert ==
  /\ pc = "for"
  /\ impl = "script"
  /\ IF idx <= Len(alerts)
       THEN /\ pc' = "retry"
            /\ attempt' = 1
            /\ started' = 0
            /\ failed' = 0
            /\ waits' = 0
            /\ lastError' = NoError
            /\ slots' = << >>
       ELSE /\ pc' = "done"
            /\ UNCHANGED << attempt, started, failed, waits, lastError, slots >>
  /\ UNCHANGED << fixedVars, idx, reports, history, attemptVars >>

\* for (let attempt = 1; attempt <= MAX_RETRIES; attempt++): the loop test,
\* then slots = await scrapeDisney(alert) is called.
RetryLoop ==
  /\ pc = "retry"
  /\ IF attempt <= MAX_RETRIES
       THEN /\ pc' = "scraping"
            /\ BeginAttempt
       ELSE /\ pc' = "report"
            /\ UNCHANGED << attemptVars, started >>
  /\ UNCHANGED << fixedVars, idx, attempt, failed, waits, lastError, slots,
                  reports, history >>

\* Mutant: lastError is not cleared on success.
AttemptReturnedKeepsError ==
  /\ pc = "scraping"
  /\ impl = "script"
  /\ apc = "returned"
  /\ slots' = allSlots
  /\ pc' = "report"
  /\ EndAttempt
  /\ UNCHANGED << fixedVars, idx, attempt, started, failed, waits, lastError,
                  reports, history >>

\* slots = await scrapeDisney(alert); lastError = null; break;
AttemptReturned ==
  /\ pc = "scraping"
  /\ impl = "script"
  /\ apc = "returned"
  /\ slots' = allSlots
  /\ lastError' = NoError
  /\ pc' = "report"
  /\ EndAttempt
  /\ UNCHANGED << fixedVars, idx, attempt, started, failed, waits, reports, history >>

\* Mutant: only the first failure is remembered.
AttemptThrewKeepsFirst ==
  /\ pc = "scraping"
  /\ impl = "script"
  /\ apc = "thrown"
  /\ lastError' = IF lastError = NoError THEN err ELSE lastError
  /\ failed' = failed + 1
  /\ IF attempt < MAX_RETRIES
       THEN /\ pc' = "sleep"
            /\ UNCHANGED attempt
       ELSE /\ pc' = "retry"
            /\ attempt' = attempt + 1
  /\ EndAttempt
  /\ UNCHANGED << fixedVars, idx, started, waits, slots, reports, history >>

\* Mutant: the backoff is waited after the final attempt too.
AttemptThrewAlwaysSleeps ==
  /\ pc = "scraping"
  /\ impl = "script"
  /\ apc = "thrown"
  /\ lastError' = err
  /\ failed' = failed + 1
  /\ pc' = "sleep"
  /\ UNCHANGED attempt
  /\ EndAttempt
  /\ UNCHANGED << fixedVars, idx, started, waits, slots, reports, history >>

\* catch (error) { lastError = ...; if (attempt < MAX_RETRIES) await sleep }
AttemptThrew ==
  /\ pc = "scraping"
  /\ impl = "script"
  /\ apc = "thrown"
  /\ lastError' = err
  /\ failed' = failed + 1
  /\ IF attempt < MAX_RETRIES
       THEN /\ pc' = "sleep"
            /\ UNCHANGED attempt
       ELSE /\ pc' = "retry"
            /\ attempt' = attempt + 1
  /\ EndAttempt
  /\ UNCHANGED << fixedVars, idx, started, waits, slots, reports, history >>

\* await sleep(RETRY_DELAY_MS), then attempt++
Sleep ==
  /\ pc = "sleep"
  /\ waits' = waits + 1
  /\ attempt' = attempt + 1
  /\ pc' = "retry"
  /\ UNCHANGED << fixedVars, idx, started, failed, lastError, slots, reports,
                  history, attemptVars >>

\* Mutant: a failed target is reported with what its last attempt collected.
ReportBodyPartial ==
  [ alertId |-> Target.id,
    slots |-> IF lastError # NoError THEN allSlots ELSE slots,
    timePeriod |-> IF lastError # NoError THEN << "all" >>
                   ELSE Target.time_preferences,
    error |-> lastError ]

\* The body main hands to reportResults.
ReportBody ==
  IF lastError # NoError
    THEN [ alertId |-> Target.id, slots |-> << >>, timePeriod |-> << "all" >>,
           error |-> lastError ]
    ELSE [ alertId |-> Target.id, slots |-> slots,
           timePeriod |-> Target.time_preferences, error |-> NoError ]

\* Mutant: the endpoint files a report without slots as an error.
NotifyRowEmptyIsError(body) ==
  [ alert_id |-> body.alertId, time_period |-> body.timePeriod,
    slots_found |-> Len(body.slots), found_slots |-> body.slots,
    error_message |-> body.error,
    status |-> IF body.error # NoError \/ Len(body.slots) = 0 THEN "error"
               ELSE "success" ]

\* POST /api/bbb/notify: the row inserted into bbb_check_history.
\*   status: scrapeError ? 'error'
\*           : (slots?.length > 0 ? 'success' : 'no_availability')
NotifyRow(body) ==
  [ alert_id |-> body.alertId, time_period |-> body.timePeriod,
    slots_found |-> Len(body.slots), found_slots |-> body.slots,
    error_message |-> body.error,
    status |-> IF body.error # NoError THEN "error"
               ELSE IF Len(body.slots) > 0 THEN "success"
               ELSE "no_availability" ]

\* await reportResults(...): the POST is answered ok (the endpoint has
\* inserted its history row), not ok (401, 400, 404 and 500 are answered
\* before the insert; both answers are only logged), or the fetch rejects,
\* which leaves the for loop and main.
ReportResults ==
  /\ pc = "report"
  /\ reports' = Append(reports, ReportBody)
  /\ \E answer \in {"ok", "not ok", "rejects"} :
       /\ IF answer = "rejects"
            THEN /\ pc' = "rejected"
                 /\ UNCHANGED idx
            ELSE /\ pc' = "for"
                 /\ idx' = idx + 1
       /\ history' = IF answer = "ok" THEN Append(history, NotifyRow(ReportBody))
                     ELSE history
  /\ UNCHANGED << fixedVars, attempt, started, failed, waits, lastError, slots,
                  attemptVars >>

(* api/bbb/cron GET with processAlert; runBBBScraper with processBBBAlert *)

\* The alert query answers with the batch or with an error.
CronEntry ==
  /\ pc = "main"
  /\ impl \in LibImpls \cup {"opentable"}
  /\ \E answer \in {"ok", "error"} :
       pc' = IF answer = "error" THEN "failed"
             ELSE IF Len(alerts) = 0 THEN "done" ELSE "for"
  /\ UNCHANGED << fixedVars, idx, attempt, started, failed, waits, lastError,
                  slots, reports, history, attemptVars >>

\* for (const alert of alerts): the scrape function is called once.
ProcessAlert ==
  /\ pc = "for"
  /\ impl \in LibImpls \cup {"opentable"}
  /\ IF idx <= Len(alerts)
       THEN /\ pc' = "scraping"
            /\ BeginAttempt
       ELSE /\ pc' = "done"
            /\ UNCHANGED << attemptVars, started >>
  /\ UNCHANGED << fixedVars, idx, attempt, failed, waits, lastError, slots,
                  reports, history >>

PeriodRow(r) ==
  [ alert_id |-> Target.id, time_period |-> r.period,
    slots_found |-> Len(r.slots), found_slots |-> r.slots,
    error_message |-> r.error,
    status |-> IF r.error # NoError THEN "error"
               ELSE IF Len(r.slots) > 0 THEN "success" ELSE "no_availability" ]

ErrorRow(message) ==
  [ alert_id |-> Target.id, time_period |-> "all", slots_found |-> 0,
    found_slots |-> << >>, error_message |-> message, status |-> "error" ]

\* scrapeBBBAvailability returned: one history row per result.
ProcessAlertReturned ==
  /\ pc = "scraping"
  /\ impl \in LibImpls
  /\ apc = "returned"
  /\ history' = history \o [ i \in 1 .. Len(results) |-> PeriodRow(results[i]) ]
  /\ idx' = idx + 1
  /\ pc' = "for"
  /\ EndAttempt
  /\ UNCHANGED << fixedVars, attempt, started, failed, waits, lastError, slots,
                  reports >>

\* scrapeBBBAvailability threw: the catch inserts one error row and the loop
\* goes on with the next alert.
ProcessAlertThrew ==
  /\ pc = "scraping"
  /\ impl \in LibImpls
  /\ apc = "thrown"
  /\ history' = Append(history, ErrorRow(err))
  /\ failed' = failed + 1
  /\ idx' = idx + 1
  /\ pc' = "for"
  /\ EndAttempt
  /\ UNCHANGED << fixedVars, attempt, started, waits, lastError, slots, reports >>

(* processHOPRAlert: one target per (alert, day) *)

HoprRow(found) ==
  [ alert_id |-> Target.id, time_period |-> "day", slots_found |-> Len(found),
    found_slots |-> found, error_message |-> NoError,
    status |-> IF Len(found) > 0 THEN "success" ELSE "no_availability" ]

HoprReturned ==
  /\ pc = "scraping"
  /\ impl = "opentable"
  /\ apc = "returned"
  /\ history' = Append(history,
       HoprRow(filterSlotsByTimeWindow(allSlots, Target.window_start,
                                       Target.window_end)))
  /\ idx' = idx + 1
  /\ pc' = "for"
  /\ EndAttempt
  /\ UNCHANGED << fixedVars, attempt, started, failed, waits, lastError, slots,
                  reports >>

\* Mutant: a day whose scrape threw is skipped without a history row.
HoprThrewUnlogged ==
  /\ pc = "scraping"
  /\ impl = "opentable"
  /\ apc = "thrown"
  /\ failed' = failed + 1
  /\ idx' = idx + 1
  /\ pc' = "for"
  /\ EndAttempt
  /\ UNCHANGED << fixedVars, attempt, started, waits, lastError, slots, reports,
                  history >>

\* catch (error): one error row for the day, and the loop goes on.
HoprThrew ==
  /\ pc = "scraping"
  /\ impl = "opentable"
  /\ apc = "thrown"
  /\ history' = Append(history, ErrorRow(err))
  /\ failed' = failed + 1
  /\ idx' = idx + 1
  /\ pc' = "for"
  /\ EndAttempt
  /\ UNCHANGED << fixedVars, attempt, started, waits, lastError, slots, reports >>

DriverStep ==
  \/ MainEntry
  \/ FetchAlerts
  \/ ForAlert
  \/ RetryLoop
  \/ AttemptReturned
  \/ AttemptThrew
  \/ Sleep
  \/ ReportResults
  \/ CronEntry
  \/ ProcessAlert
  \/ ProcessAlertReturned
  \/ ProcessAlertThrew
  \/ HoprReturned
  \/ HoprThrew

Next == AttemptStep \/ DriverStep

Spec == Init /\ [][Next]_vars

-----------------------------------------------------------------------------
(* Properties *)

IsPrefix(a, b) == Len(a) <= Len(b) /\ SubSeq(b, 1, Len(a)) = a

\* C1: every browser an attempt launched is closed by the time the attempt
\* returns or throws, whichever stage failed: outside a running attempt no
\* browser process is alive.
C1_BrowserClosedOnExit == ~Active => live = {}

\* C1 witness: an attempt that launched a browser threw from inside the
\* wizard (a step after date selection began) and its browser is closed.
C1_Witness ==
  /\ apc = "thrown"
  /\ browser # NoBrowser
  /\ Len(trace) > 0
  /\ live = {}

\* C2: when main reports after an attempt that returned, k attempts threw
\* before it, k + 1 attempts were started, the backoff was waited exactly k
\* times, and the body carries that attempt's slot list and no error.
C2_SuccessAfterFailures ==
  (impl = "script" /\ pc = "report" /\ err = NoError) =>
    /\ failed < MAX_RETRIES
    /\ started = failed + 1
    /\ waits = failed
    /\ ReportBody.error = NoError
    /\ ReportBody.slots = allSlots

\* C2 witness: two failures, then a third attempt that found a slot.
C2_Witness ==
  /\ impl = "script"
  /\ pc = "report"
  /\ err = NoError
  /\ failed = 2
  /\ started = 3
  /\ waits = 2
  /\ Len(ReportBody.slots) > 0

\* C3: when every attempt threw, main reports after exactly MAX_RETRIES
\* attempts, the error string is the last attempt's message, and the
\* exhausted target always reaches reportResults: once the loop is left
\* the report is the next step, and after it the last body handed over
\* carries that message.
C3_ExhaustionReported ==
  /\ (impl = "script" /\ pc = "report" /\ err # NoError) =>
       /\ started = MAX_RETRIES
       /\ failed = MAX_RETRIES
       /\ ReportBody.error = err
  /\ (impl = "script" /\ failed = MAX_RETRIES) =>
       \/ pc \in {"retry", "report"}
       \/ /\ pc \in {"for", "rejected", "done"}
          /\ Len(reports) > 0
          /\ reports[Len(reports)].error = err
          /\ err # NoError

\* C3 witness: three attempts threw and the target is about to be reported.
C3_Witness ==
  /\ impl = "script"
  /\ pc = "report"
  /\ failed = MAX_RETRIES
  /\ err = E_blocked

\* C4: every target of the fetched batch is processed, one after the other,
\* whatever happened to the targets before it: when the driver has ended
\* after entering its loop, each alert of the batch has its report (main)
\* or its history rows (cron, processBBBAlert, processHOPRAlert), in order.
Processed(i) ==
  IF impl = "script"
    THEN i <= Len(reports) /\ reports[i].alertId = alerts[i].id
    ELSE \E k \in 1 .. Len(history) : history[k].alert_id = alerts[i].id

LoopEntered == pc = "done" \/ (pc = "rejected" /\ Len(reports) > 0)

C4_EveryTargetProcessed ==
  /\ LoopEntered => \A i \in 1 .. Len(alerts) : Processed(i)
  /\ Active => \A i \in 1 .. idx - 1 : Processed(i)

\* C5: a report that carries an error carries an empty slot list, also when
\* the failed attempt had collected slots before it threw.
C5_NoPartialSlots ==
  /\ \A i \in 1 .. Len(reports) :
       reports[i].error # NoError => reports[i].slots = << >>
  /\ (impl = "script" /\ pc = "report" /\ lastError # NoError) =>
       ReportBody.slots = << >>

\* C5 witness: the last attempt of an exhausted target threw after having
\* collected a slot, and the report was handed over.
C5_Witness ==
  /\ impl = "script"
  /\ pc \in {"for", "rejected", "done"}
  /\ Len(reports) > 0
  /\ reports[Len(reports)].error # NoError
  /\ err # NoError
  /\ Len(allSlots) > 0

\* C6: at most one browser is alive at any moment, none is alive when an
\* attempt is about to launch its own, and a running attempt only has the
\* browser it launched itself.
C6_OneLiveSession ==
  /\ Cardinality(live) <= 1
  /\ apc = "launch" => live = {}
  /\ (Active /\ browser # NoBrowser) => (browser = BrowserId /\ live \subseteq {browser})

\* C6 witness: a later attempt, or a later target, runs with its own browser.
C6_Witness ==
  /\ live = {BrowserId}
  /\ started + idx > 2
  /\ apc = "periods"

\* The order of wizard steps of the two BBB scrapers and of scrapeOpenTable.
WizardOrder == << "SelectDate", "SetPartySize" >> \o Target.time_preferences
OpenTableOrder == << "SetPartySize", "SelectDate", "Extract" >>

\* C7 as stated: in every scraper the steps of an attempt are SelectDate,
\* SetPartySize, then one SelectPeriod per requested period, in that order,
\* and an attempt that returns has done all of them.
C7_StrictOrderEverySite ==
  Active \/ apc = "returned" =>
    /\ IsPrefix(trace, WizardOrder)
    /\ apc = "returned" => trace = WizardOrder

\* C7 amended: scrapeDisney and scrapeBBBAvailability do SelectDate, then
\* SetPartySize, then one SelectPeriod per requested period in request order;
\* scrapeOpenTable does SetPartySize, then SelectDate, then one extraction
\* with no period step.  An attempt that returns has done all its steps.
C7_StepOrder ==
  Active \/ apc = "returned" =>
    LET order == IF impl = "opentable" THEN OpenTableOrder ELSE WizardOrder
    IN  /\ IsPrefix(trace, order)
        /\ apc = "returned" => trace = order

\* C7 witness: a BBB attempt returned after date, guests and two periods.
C7_Witness ==
  /\ impl \in BBBImpls
  /\ apc = "returned"
  /\ Len(trace) = 4

\* C8: when the date could not be selected, nothing follows the date step
\* in that attempt: no party-size step, no period step, no extraction, and
\* no slot.
C8_DateFailureAborts ==
  (Active \/ apc \in {"returned", "thrown"}) /\ ~dateSelected =>
    /\ \A i \in 1 .. Len(trace) : trace[i] = "SelectDate" => i = Len(trace)
    /\ allSlots = << >>
    /\ results = << >>

\* C9: when the calendar shows the target month and selectDate finds no
\* enabled control for the target day, the attempt does not throw: it ends
\* as a success with an empty slot list.
C9_DateUnavailableIsSuccess ==
  [][ (apc = "dateResult" /\ ~dateSelected /\ navEnd = "match") =>
        (err' = NoError /\ allSlots' = << >>) ]_vars

\* C10: when the month loop used up its iterations and the widget still
\* shows a month before the target month, selectDate clicks no day.
C10_NoClickAfterExhaustion ==
  (navEnd = "exhausted" /\ displayed < TargetMonth) => clicked = NoControl

\* C11: an error while one requested period is checked does not keep the
\* other requested periods from being checked in the same attempt: an
\* attempt that entered the period loop and then left the try block has
\* entered every requested period, and it left without throwing.
C11_PeriodErrorIsolated ==
  (impl \in BBBImpls /\ apc \in {"finally", "returned", "thrown"} /\ Len(trace) > 2) =>
    /\ trace = WizardOrder
    /\ err = NoError

-----------------------------------------------------------------------------
(* The pure functions of the scrapers, applied to inputs of their own *)

MaxButtons == 2

\* Every combination of what the extractor reads from one button.
ButtonKinds ==
  { Button(t, d, a, c) :
      t \in {TimeText(7, 30, "PM"), LabelText},
      d \in {Null, "", "true"},
      a \in {Null, "true", "false"},
      c \in BOOLEAN }

SeqsUpTo(S, n) == UNION { [ 1 .. k -> S ] : k \in 0 .. n }

PanelArgs ==
  { [ kind |-> "panel", buttons |-> bs, period |-> p ] :
      bs \in SeqsUpTo(ButtonKinds, MaxButtons),
      p \in {"morning", "evening"} }

\* The state a function is applied in: no scraper run is going on.
FnIdle ==
  /\ secret = TRUE
  /\ alerts = Batch(1)
  /\ pc = "fn"
  /\ idx = 1
  /\ attempt = 1
  /\ started = 0
  /\ failed = 0
  /\ waits = 0
  /\ lastError = NoError
  /\ slots = << >>
  /\ reports = << >>
  /\ history = << >>
  /\ apc = "idle"
  /\ browser = NoBrowser
  /\ live = {}
  /\ blocked = FALSE
  /\ err = NoError
  /\ displayed = 0
  /\ navI = 0
  /\ navEnd = "none"
  /\ clicked = NoControl
  /\ dateSelected = FALSE
  /\ trace = << >>
  /\ pIdx = 1
  /\ allSlots = << >>
  /\ results = << >>
  /\ shown = << >>
  /\ fn = "ready"
  /\ out = Null
  /\ notified = {}
  /\ emails = << >>
  /\ todo = << >>
  /\ mpc = "idle"
  /\ calls = 0
  /\ serverSecret = Null
  /\ active = << >>
  /\ reqs = << >>

Returns(name, value) ==
  /\ fn' = name
  /\ out' = value
  /\ UNCHANGED << impl, secret, alerts, arg, mailVars, serverVars, driverVars,
                  attemptVars >>

\* The button loop of checkTimePeriod / scrapeOpenTable over one panel.
ApplyExtract ==
  /\ fn = "ready"
  /\ arg.kind = "panel"
  /\ Returns("extract",
       IF impl = "opentable" THEN OtScanButtons(arg.buttons)
                             ELSE ScanButtons(arg.buttons, arg.period))

\* C12: the extractor turns a button into a slot if and only if its text
\* matches the time pattern, no disabled attribute is present, aria-disabled
\* is not "true" and the class has no disabled marker: the slots returned
\* are the times of exactly those buttons, in page order.
C12_SlotIffEnabledTime ==
  fn = "extract" =>
    LET want == SelectSeq(arg.buttons,
                  LAMBDA b : /\ b.text.kind = "time"
                             /\ b.disabled = Null
                             /\ b.aria # "true"
                             /\ ~b.cls)
    IN  /\ Len(out) = Len(want)
        /\ \A i \in 1 .. Len(want) : out[i].time = want[i].text

\* Valid 12-hour times, the meridiem in either case.
Minutes == {0, 5, 30, 59}

TimeArgs ==
  { [ kind |-> "time", h |-> h, m |-> m, mer |-> mer ] :
      h \in 1 .. 12, m \in Minutes, mer \in {"AM", "PM", "am", "pm"} }

\* Mutant: noon and midnight are not told apart from the other hours.
PeriodHoursPlain(h, meridiem) ==
  IF meridiem = "PM" THEN h + 12 ELSE h

\* getTimePeriod: the hour it classifies.
PeriodHours(h, meridiem) ==
  IF meridiem = "PM" /\ h # 12 THEN h + 12
  ELSE IF meridiem = "AM" /\ h = 12 THEN 0
  ELSE h

getTimePeriod(t) ==
  LET hours == PeriodHours(t.h, ToUpperCase(t.mer))
  IN  IF hours < 12 THEN "morning"
      ELSE IF hours < 16 THEN "afternoon"
      ELSE "evening"

\* buildBookingUrl: time24 = `${hours padded to two digits}:${minutes}`
UrlHours(h, meridiem) ==
  IF meridiem = "PM" /\ h # 12 THEN h + 12
  ELSE IF meridiem = "AM" /\ h = 12 THEN 0
  ELSE h

BookingTime24(t) == << UrlHours(t.h, ToUpperCase(t.mer)), t.m >>

\* The conversion inside filterSlotsByTimeWindow.
ApplyFilterTime ==
  /\ fn = "ready"
  /\ arg.kind = "time"
  /\ Returns("filterTime",
       [ hours |-> FilterTime24(arg)[1], minutes |-> FilterTime24(arg)[2] ])

\* The conversion inside getTimePeriod, with the period it returns.
ApplyGetTimePeriod ==
  /\ fn = "ready"
  /\ arg.kind = "time"
  /\ Returns("getTimePeriod",
       [ hours |-> PeriodHours(arg.h, ToUpperCase(arg.mer)),
         period |-> getTimePeriod(arg) ])

\* The conversion inside buildBookingUrl.
ApplyBookingTime ==
  /\ fn = "ready"
  /\ arg.kind = "time"
  /\ Returns("bookingTime",
       [ hours |-> BookingTime24(arg)[1], minutes |-> BookingTime24(arg)[2] ])

\* Buttons around the bounds of a 16:00 - 20:00 window, enabled or carrying
\* the disabled attribute.
WindowButtons ==
  { Button(TimeText(t[1], t[2], "PM"), d, Null, FALSE) :
      t \in {<< 3, 59 >>, << 4, 0 >>, << 7, 30 >>, << 8, 0 >>, << 9, 30 >>},
      d \in {Null, ""} }

\* The window given as "HH:MM" or as "HH:MM:SS".
WindowArgs ==
  { [ kind |-> "window", buttons |-> bs, windowStart |-> w[1], windowEnd |-> w[2] ] :
      bs \in SeqsUpTo(WindowButtons, MaxButtons),
      w \in { << << 16, 0 >>, << 20, 0 >> >>,
              << << 16, 0, 0 >>, << 20, 0, 0 >> >> } }

\* scrapeOpenTable's extraction followed by filterSlotsByTimeWindow.
ApplyFilter ==
  /\ fn = "ready"
  /\ arg.kind = "window"
  /\ Returns("filter",
       filterSlotsByTimeWindow(OtScanButtons(arg.buttons),
                               arg.windowStart, arg.windowEnd))

-----------------------------------------------------------------------------
(* setGuestCount of the script *)

\* What the page answers to each strategy of setGuestCount: "absent" when
\* isVisible answers false, "ok" when the control is visible and the
\* operation resolves, "rejects" when the control is visible and the
\* operation rejects without changing the widget.  The "+" button is visible
\* or not, and plusClicks is the number of its clicks that resolve before
\* one rejects.
ControlAnswers == {"absent", "ok", "rejects"}

\* The largest count the widget shows before setGuestCount runs.
MaxCount == 3

\* current is the count the widget shows before setGuestCount runs.
GuestArgs ==
  { [ kind |-> "guests", select |-> s, plusVisible |-> v, plusClicks |-> k,
      input |-> i, button |-> b, current |-> c ] :
      s \in ControlAnswers, v \in BOOLEAN,
      k \in 0 .. (AlertOf(1).party_size - 1),
      i \in ControlAnswers, b \in ControlAnswers, c \in 1 .. MaxCount }

\* Inputs of setGuestCount of bbb-scraper.ts: the count the widget shows,
\* which is the number the first text=/\d+/ element holds, and the wanted
\* count; every click resolves.
CounterArgs ==
  { [ kind |-> "counter", current |-> c, numGuests |-> n ] :
      c \in 1 .. MaxCount, n \in 1 .. MaxCount }



\* setGuestCount of bbb-scraper.ts: the clicks it performs, in order.
LibSetGuestCount(current, numGuests) ==
  IF numGuests > current
    THEN [ k \in 1 .. numGuests - current |-> [ by |-> "plus", value |-> 1 ] ]
    ELSE IF numGuests < current
           THEN [ k \in 1 .. current - numGuests |->
                    [ by |-> "minus", value |-> 1 ] ]
           ELSE << >>

ApplyLibSetGuestCount ==
  /\ fn = "ready"
  /\ arg.kind = "counter"
  /\ Returns("libSetGuestCount", LibSetGuestCount(arg.current, arg.numGuests))

\* Strategy 2 returns only when every click of its loop resolved.
PlusDone(w, numGuests) ==
  w.plusVisible /\ w.plusClicks >= numGuests - 1

\* The operations setGuestCount performs on the widget, in order.
setGuestCount(w, numGuests) ==
  LET plus == IF w.plusVisible
                THEN [ k \in 1 .. (IF w.plusClicks < numGuests - 1
                                     THEN w.plusClicks ELSE numGuests - 1) |->
                         [ by |-> "plus", value |-> 1 ] ]
                ELSE << >>
      later == IF w.input = "ok"
                 THEN << [ by |-> "input", value |-> numGuests ] >>
                 ELSE IF w.button = "ok"
                        THEN << [ by |-> "button", value |-> numGuests ] >>
                        ELSE << >>
  IN  IF w.select = "ok"
        THEN << [ by |-> "select", value |-> numGuests ] >>
        ELSE IF PlusDone(w, numGuests) THEN plus ELSE plus \o later

ApplySetGuestCount ==
  /\ fn = "ready"
  /\ arg.kind = "guests"
  /\ Returns("setGuestCount", setGuestCount(arg, Target.party_size))

-----------------------------------------------------------------------------
(* getNextDayOfWeek of scraper.ts *)

days ==
  << "Sunday", "Monday", "Tuesday", "Wednesday", "Thursday", "Friday",
     "Saturday" >>

\* days.indexOf(dayName), zero-based, -1 when absent.
indexOf(dayName) ==
  IF \E i \in 1 .. Len(days) : days[i] = dayName
    THEN (CHOOSE i \in 1 .. Len(days) : days[i] = dayName) - 1
    ELSE 0 - 1

\* todayDay is today.getDay() in the process's time zone.  utcShift is the
\* UTC calendar date minus the local calendar date at the moment of the
\* call: 0 when the process runs in UTC, 1 in the evening of a zone west of
\* Greenwich, -1 in the early morning of a zone east of it.  setDate keeps
\* the local time of day, so the same shift applies to the computed date.
WeekdayArgs ==
  { [ kind |-> "weekday", todayDay |-> d, dayName |-> n, utcShift |-> z ] :
      d \in 0 .. 6,
      n \in { days[i] : i \in 1 .. Len(days) } \cup { "friday", "Someday" },
      z \in { 0 - 1, 0, 1 } }

\* getNextDayOfWeek: the target date is computed on the local calendar and
\* written with toISOString(), which prints the UTC calendar date.  offset is
\* the number of days from the local today to the date returned.
getNextDayOfWeek(d) ==
  LET targetDay == indexOf(d.dayName)
      diff == targetDay - d.todayDay
      daysUntilTarget == IF diff <= 0 THEN diff + 7 ELSE diff
  IN  IF targetDay = 0 - 1
        THEN [ threw |-> TRUE, offset |-> 0 ]
        ELSE [ threw |-> FALSE, offset |-> daysUntilTarget + d.utcShift ]

ApplyGetNextDayOfWeek ==
  /\ fn = "ready"
  /\ arg.kind = "weekday"
  /\ Returns("getNextDayOfWeek", getNextDayOfWeek(arg))

-----------------------------------------------------------------------------
(* Specification of the pure functions *)

FnInit ==
  /\ FnIdle
  /\ \/ /\ impl \in Impls
        /\ arg \in PanelArgs
     \/ /\ impl = "opentable"
        /\ arg \in TimeArgs \cup WindowArgs \cup WeekdayArgs
     \/ /\ impl = "script"
        /\ arg \in GuestArgs
     \/ /\ impl \in LibImpls
        /\ arg \in CounterArgs

FnNext ==
  \/ ApplyExtract
  \/ ApplyFilterTime
  \/ ApplyGetTimePeriod
  \/ ApplyBookingTime
  \/ ApplyFilter
  \/ ApplySetGuestCount
  \/ ApplyLibSetGuestCount
  \/ ApplyGetNextDayOfWeek

FnSpec == FnInit /\ [][FnNext]_vars

\* C13: for every valid 12-hour time the three conversions (window filter,
\* period classifier, booking URL) give the exact 24-hour hour: 12 AM is 0,
\* 12 PM is 12, another PM hour is H + 12, another AM hour is H; the two
\* that produce minutes keep them unchanged.
C13_ConversionExact ==
  fn \in {"filterTime", "getTimePeriod", "bookingTime"} =>
    /\ out.hours = CASE arg.mer \in {"AM", "am"} /\ arg.h = 12 -> 0
                     [] arg.mer \in {"PM", "pm"} /\ arg.h = 12 -> 12
                     [] arg.mer \in {"PM", "pm"} /\ arg.h # 12 -> arg.h + 12
                     [] OTHER -> arg.h
    /\ fn # "getTimePeriod" => out.minutes = arg.m

\* C13 witness: the period classifier converted 12:30 am to hour 0.
C13_Witness ==
  /\ fn = "getTimePeriod"
  /\ arg.h = 12
  /\ arg.m = 30
  /\ arg.mer = "am"
  /\ out.hours = 0

\* C14: the slots returned for a clock window are exactly the enabled time
\* buttons whose 24-hour time lies within the window, both bounds included,
\* whether the bounds are given as HH:MM or as HH:MM:SS.
C14_WindowExact ==
  fn = "filter" =>
    LET mins(t) == Hours24(t.h, t.mer) * 60 + t.m
        lo == arg.windowStart[1] * 60 + arg.windowStart[2]
        hi == arg.windowEnd[1] * 60 + arg.windowEnd[2]
        want == SelectSeq(arg.buttons,
                  LAMBDA b : /\ b.disabled = Null
                             /\ lo <= mins(b.text)
                             /\ mins(b.text) <= hi)
    IN  /\ Len(out) = Len(want)
        /\ \A i \in 1 .. Len(want) : out[i].time = want[i].text

\* C15: an attempt for the periods morning and evening that was shown the
\* no-availability signature for morning and, for evening, a panel whose
\* only time button is enabled (buttons that carry a disabled attribute are
\* the matter of C12) has zero slots for morning, exactly that slot for
\* evening, and no error against morning nor for the attempt.
C15_Scenario ==
  /\ impl \in BBBImpls
  /\ apc \in {"periods", "finally", "returned"}
  /\ Len(shown) = 2
  /\ shown[1].period = "morning"
  /\ shown[1].noAvail
  /\ shown[2].period = "evening"
  /\ ~shown[2].noAvail
  /\ Cardinality({ i \in 1 .. Len(shown[2].panel) :
                     /\ shown[2].panel[i].text.kind = "time"
                     /\ shown[2].panel[i].disabled = Null
                     /\ shown[2].panel[i].aria # "true"
                     /\ ~shown[2].panel[i].cls }) = 1
  /\ \A i \in 1 .. Len(shown[2].panel) :
       shown[2].panel[i].text.kind = "time" => shown[2].panel[i].disabled = Null

C16_BlockedFailsFast ==
  blocked =>
    /\ trace = << >>
    /\ apc \in {"finally", "thrown"} => err = E_blocked

\* C17: when main has ended after fetching the batch, exactly one outcome
\* per alert of the batch has been posted to the reporting endpoint, in batch
\* order, each carrying the slot list or an error string, whatever happened
\* to the reports before it.
C17_OneOutcomePerTarget ==
  (impl = "script" /\ LoopEntered) =>
    /\ Len(reports) = Len(alerts)
    /\ \A i \in 1 .. Len(reports) :
         /\ reports[i].alertId = alerts[i].id
         /\ reports[i].error = NoError \/ reports[i].slots = << >>

\* C18: when CRON_SECRET is absent, main stops at its first statement: it
\* never fetches the alerts, never starts a scrape attempt, never launches
\* a browser and never posts a report.
C18_NoSecretStopsFirst ==
  (impl = "script" /\ ~secret) =>
    /\ pc \in {"main", "exit1"}
    /\ started = 0
    /\ apc = "idle"
    /\ live = {}
    /\ reports = << >>

\* C18 witness: main has exited for want of the credential.
C18_Witness ==
  /\ impl = "script"
  /\ ~secret
  /\ pc = "exit1"

-----------------------------------------------------------------------------
(* C19 *)

\* Every requested period was checked and each page showed the
\* no-availability message or no button at all.
C19_NothingOffered ==
  /\ impl \in BBBImpls
  /\ pc = "scraping"
  /\ apc = "returned"
  /\ Len(shown) = Len(Target.time_preferences)
  /\ \A i \in 1 .. Len(shown) : shown[i].noAvail \/ shown[i].panel = << >>

C19_RowOk(row) ==
  /\ row.status \in {"error", "success", "no_availability"}
  /\ row.status = "error" <=> row.error_message # NoError
  /\ row.status = "success" <=> (row.error_message = NoError /\ row.slots_found > 0)

\* C19: a scrape that finds no availability is reported without an error and
\* with no slot, and the history rows written for it have status
\* 'no_availability'; every history row has status 'error' exactly when an
\* error was reported and 'success' exactly when no error was reported and
\* at least one slot was found.
C19_NoAvailabilityIsSuccess ==
  [][ /\ \A k \in 1 .. Len(history') : C19_RowOk(history'[k])
      /\ (C19_NothingOffered /\ impl = "script") =>
           (lastError' = NoError /\ slots' = << >>)
      /\ (C19_NothingOffered /\ impl \in LibImpls) =>
           /\ Len(history') = Len(history) + Len(results)
           /\ \A k \in Len(history) + 1 .. Len(history') :
                history'[k].status = "no_availability"
      /\ (impl = "script" /\ pc = "report" /\ Len(history') > Len(history)) =>
           /\ history'[Len(history')].error_message = lastError
           /\ history'[Len(history')].slots_found =
                (IF lastError = NoError THEN Len(slots) ELSE 0)
           /\ (lastError = NoError /\ slots = << >>) =>
                history'[Len(history')].status = "no_availability"
    ]_vars

C19_Witness ==
  /\ impl = "script"
  /\ pc = "for"
  /\ lastError = NoError
  /\ slots = << >>
  /\ Len(history) > 0
  /\ history[Len(history)].status = "no_availability"
  /\ history[Len(history)].alert_id = reports[Len(reports)].alertId

-----------------------------------------------------------------------------
(* sendBBBNotification and sendAvailabilityNotification *)

\* The slots a report for alert a can carry: found times of the periods the
\* alert asks for (BBB), or found times of the alert's day (HOPR).
BBBReportSlots(a) ==
  { [ time |-> t, period |-> a.time_preferences[k] ] :
      t \in {TimeText(9, 0, "AM"), TimeText(7, 30, "PM")},
      k \in 1 .. Len(a.time_preferences) }

HoprReportSlots(a) ==
  { [ date |-> a.target_month, time |-> t, partySize |-> a.party_size ] :
      t \in {TimeText(5, 0, "PM"), TimeText(7, 30, "PM")} }

\* The elements of s without repetition, in order of first appearance: the
\* iteration order of the Map periodSlots.
Distinct(s) ==
  LET F[i \in 0 .. Len(s)] ==
        IF i = 0 THEN << >>
        ELSE IF \E j \in 1 .. i - 1 : s[j] = s[i] THEN F[i - 1]
        ELSE Append(F[i - 1], s[i])
  IN  F[Len(s)]

\* One lookup key per period group: alert_id, reservation_date, time_period.
BBBKeys(a, found) ==
  LET periods == Distinct([ i \in 1 .. Len(found) |-> found[i].period ])
  IN  [ i \in 1 .. Len(periods) |-> << a.id, a.target_month, periods[i] >> ]

\* One lookup key per slot: alert_id, reservation_date, reservation_time.
HoprKeys(a, found) ==
  [ i \in 1 .. Len(found) |-> << a.id, found[i].date, found[i].time >> ]

MailUnchanged ==
  UNCHANGED << impl, secret, alerts, fnVars, serverVars, driverVars, attemptVars >>

\* A report with at least one slot reaches the notifier.
SendNotification ==
  /\ mpc = "idle"
  /\ calls < MaxCalls
  /\ \E i \in 1 .. Len(alerts) :
       IF impl \in BBBImpls
         THEN \E found \in SeqsUpTo(BBBReportSlots(alerts[i]), MaxButtons) :
                /\ found # << >>
                /\ todo' = BBBKeys(alerts[i], found)
         ELSE \E found \in SeqsUpTo(HoprReportSlots(alerts[i]), MaxButtons) :
                /\ found # << >>
                /\ todo' = HoprKeys(alerts[i], found)
  /\ calls' = calls + 1
  /\ mpc' = "lookup"
  /\ UNCHANGED << notified, emails >>
  /\ MailUnchanged

\* The loop test, then const { data: existing } = await ...select('id')...:
\* the row when the query succeeds and the table holds the key, null when it
\* holds none or the query fails (the error field is not read); a rejected
\* await is caught and the loop goes on.
MailLookup ==
  /\ mpc = "lookup"
  /\ IF todo = << >>
       THEN /\ mpc' = "idle"
            /\ UNCHANGED todo
       ELSE \E answer \in {"ok", "error", "rejects"} :
              LET existing == answer = "ok" /\ Head(todo) \in notified
              IN  IF existing \/ answer = "rejects"
                    THEN /\ todo' = Tail(todo)
                         /\ UNCHANGED mpc
                    ELSE /\ mpc' = "send"
                         /\ UNCHANGED todo
  /\ UNCHANGED << notified, emails, calls >>
  /\ MailUnchanged

\* Mutant: the record is inserted whatever the mail service answered.
MailSendThenInsertAnyway ==
  /\ mpc = "send"
  /\ \E answer \in {"sent", "error", "rejects"} :
       emails' = IF answer = "sent" THEN Append(emails, Head(todo)) ELSE emails
  /\ mpc' = "insert"
  /\ UNCHANGED << todo, notified, calls >>
  /\ MailUnchanged

\* await resend.emails.send(...): on error, or when the await rejects, the
\* loop goes on with the next key.
MailSend ==
  /\ mpc = "send"
  /\ \E answer \in {"sent", "error", "rejects"} :
       IF answer = "sent"
         THEN /\ emails' = Append(emails, Head(todo))
              /\ mpc' = "insert"
              /\ UNCHANGED todo
         ELSE /\ todo' = Tail(todo)
              /\ mpc' = "lookup"
              /\ UNCHANGED emails
  /\ UNCHANGED << notified, calls >>
  /\ MailUnchanged

\* await ...insert({...}): the answer is not read.  The table has a unique
\* constraint on the key.
MailInsert ==
  /\ mpc = "insert"
  /\ \E answer \in {"ok", "error", "rejects"} :
       notified' = IF answer = "ok" THEN notified \cup {Head(todo)} ELSE notified
  /\ todo' = Tail(todo)
  /\ mpc' = "lookup"
  /\ UNCHANGED << emails, calls >>
  /\ MailUnchanged

-----------------------------------------------------------------------------
(* Specification of the notifier *)

MailInit ==
  /\ impl \in Impls
  /\ secret = TRUE
  /\ alerts = Batch(MaxBatch)
  /\ pc = "mail"
  /\ idx = 1
  /\ attempt = 1
  /\ started = 0
  /\ failed = 0
  /\ waits = 0
  /\ lastError = NoError
  /\ slots = << >>
  /\ reports = << >>
  /\ history = << >>
  /\ apc = "idle"
  /\ browser = NoBrowser
  /\ live = {}
  /\ blocked = FALSE
  /\ err = NoError
  /\ displayed = 0
  /\ navI = 0
  /\ navEnd = "none"
  /\ clicked = NoControl
  /\ dateSelected = FALSE
  /\ trace = << >>
  /\ pIdx = 1
  /\ allSlots = << >>
  /\ results = << >>
  /\ shown = << >>
  /\ fn = "idle"
  /\ arg = Null
  /\ out = Null
  /\ notified = {}
  /\ emails = << >>
  /\ todo = << >>
  /\ mpc = "idle"
  /\ calls = 0
  /\ serverSecret = Null
  /\ active = << >>
  /\ reqs = << >>

MailNext == SendNotification \/ MailLookup \/ MailSend \/ MailInsert

MailSpec == MailInit /\ [][MailNext]_vars

\* C20: over any sequence of reports at most one email is sent per key
\* (alert, reservation date, period) for BBB alerts and (alert, reservation
\* date, time) for HOPR alerts: once an email went out for a key, no later
\* report with slots for that key sends another.
C20_OneEmailPerKey ==
  \A i, j \in 1 .. Len(emails) : emails[i] = emails[j] => i = j

-----------------------------------------------------------------------------
(* The server: GET and POST /api/bbb/notify, GET /api/bbb/cron, and the     *)
(* PATCH that pauses an alert.  Two requests are handled concurrently;     *)
(* every await is a point where the other handler can run.                 *)
(* The database and the mail service answer here; their failures are the   *)
(* subject of the notifier's own specification.                            *)

Handlers == {"h1", "h2"}

Endpoints == {"notifyGET", "notifyPOST", "cronGET"}

\* The scheduler has one cron request in flight at a time.
CronHandler == "h1"

ConfiguredSecret == "s3cret"

\* req.headers.get('authorization'): Null when the header is absent.
Headers == { Null, "Bearer " \o ConfiguredSecret, "Bearer undefined" }

\* `Bearer ${process.env.CRON_SECRET}`: a template literal renders an
\* undefined value as the text "undefined".
ExpectedHeader ==
  "Bearer " \o (IF serverSecret = Null THEN "undefined" ELSE serverSecret)



\* authHeader !== `Bearer ${process.env.CRON_SECRET}` is false.
Authorized(header) == header = ExpectedHeader

\* The bodies a POST can carry: alertId 0 stands for a missing alertId; a
\* body reports slots, nothing, or an error.
PostBodies ==
  { b \in [ alertId : 0 .. Len(alerts),
            slots : { << >>,
                      << [ time |-> TimeText(7, 30, "PM"), period |-> "evening" ] >> },
            timePeriod : {"evening"},
            error : {NoError, E_timeout} ] :
      b.error # NoError => b.slots = << >> }

\* What a request without a JSON body carries.
NoBody ==
  [ alertId |-> 0, slots |-> << >>, timePeriod |-> "evening", error |-> NoError ]

IdleRequest ==
  [ endpoint |-> "none", header |-> Null, body |-> NoBody, step |-> "idle",
    status |-> 0, queue |-> << >>, todo |-> << >> ]

\* The ids of the active alerts, in table order:
\* .from('bbb_alerts').select('*').eq('is_active', true)
ActiveIds ==
  LET F[i \in 0 .. Len(alerts)] ==
        IF i = 0 THEN << >>
        ELSE IF active[i] THEN Append(F[i - 1], alerts[i].id) ELSE F[i - 1]
  IN  F[Len(alerts)]

ServerUnchanged ==
  UNCHANGED << impl, secret, alerts, fnVars, todo, mpc, serverSecret, pc, idx,
               attempt, started, failed, waits, lastError, slots, reports,
               attemptVars >>

\* The response goes out; the handler's locals are gone.
Answer(h, code) ==
  reqs' = [reqs EXCEPT ![h] =
    [@ EXCEPT !.step = "done", !.status = code, !.body = NoBody,
              !.queue = << >>, !.todo = << >>]]

Step(h, next) == reqs' = [reqs EXCEPT ![h] = [@ EXCEPT !.step = next]]

\* A request arrives.
Receive(h) ==
  /\ reqs[h].step = "idle"
  /\ \E e \in Endpoints, header \in Headers, body \in PostBodies :
       /\ e = "cronGET" => h = CronHandler
       /\ e # "notifyPOST" => body = NoBody
       /\ reqs' = [reqs EXCEPT ![h] =
            [ endpoint |-> e, header |-> header,
              body |-> body,
              step |-> "auth", status |-> 0, queue |-> << >>, todo |-> << >> ]]
  /\ UNCHANGED << history, notified, emails, active, calls >>
  /\ ServerUnchanged

\* if (authHeader !== `Bearer ${process.env.CRON_SECRET}`) return 401
CheckAuth(h) ==
  /\ reqs[h].step = "auth"
  /\ IF Authorized(reqs[h].header)
       THEN Step(h, CASE reqs[h].endpoint = "notifyGET" -> "list"
                      [] reqs[h].endpoint = "notifyPOST" -> "body"
                      [] OTHER -> "fetch")
       ELSE Answer(h, 401)
  /\ UNCHANGED << history, notified, emails, active, calls >>
  /\ ServerUnchanged

\* GET /api/bbb/notify answers with the active alerts.
ListAlerts(h) ==
  /\ reqs[h].step = "list"
  /\ reqs' = [reqs EXCEPT ![h] =
       [@ EXCEPT !.step = "done", !.status = 200, !.body = NoBody,
                 !.queue = ActiveIds]]
  /\ UNCHANGED << history, notified, emails, active, calls >>
  /\ ServerUnchanged

\* POST: if (!alertId) 400; the alert is fetched by id, whatever its
\* is_active; 404 when there is none.
PostAlert(h) ==
  /\ reqs[h].step = "body"
  /\ IF reqs[h].body.alertId = 0
       THEN Answer(h, 400)
       ELSE IF reqs[h].body.alertId \notin 1 .. Len(alerts)
         THEN Answer(h, 404)
         ELSE Step(h, "log")
  /\ UNCHANGED << history, notified, emails, active, calls >>
  /\ ServerUnchanged

\* POST: the history insert, then sendBBBNotification when slots came.
PostLog(h) ==
  /\ reqs[h].step = "log"
  /\ history' = Append(history, NotifyRow(reqs[h].body))
  /\ IF Len(reqs[h].body.slots) > 0
       THEN reqs' = [reqs EXCEPT ![h] =
              [@ EXCEPT !.step = "lookup",
                        !.todo = BBBKeys(alerts[reqs[h].body.alertId],
                                         reqs[h].body.slots)]]
       ELSE Answer(h, 200)
  /\ UNCHANGED << notified, emails, active, calls >>
  /\ ServerUnchanged

\* GET /api/bbb/cron: the active alerts are fetched once, before the loop.
CronFetch(h) ==
  /\ reqs[h].step = "fetch"
  /\ reqs' = [reqs EXCEPT ![h] = [@ EXCEPT !.step = "loop", !.queue = ActiveIds]]
  /\ UNCHANGED << history, notified, emails, active, calls >>
  /\ ServerUnchanged

\* for (const alert of alerts): processAlert(alert) starts the scrape.
CronLoop(h) ==
  /\ reqs[h].step = "loop"
  /\ IF reqs[h].queue = << >> THEN Answer(h, 200) ELSE Step(h, "scrape")
  /\ UNCHANGED << history, notified, emails, active, calls >>
  /\ ServerUnchanged

CronRow(a, found, message) ==
  [ alert_id |-> a.id,
    time_period |-> IF message # NoError THEN "all" ELSE a.time_preferences[1],
    slots_found |-> Len(found), found_slots |-> found,
    error_message |-> message,
    status |-> IF message # NoError THEN "error"
               ELSE IF Len(found) > 0 THEN "success" ELSE "no_availability" ]

\* The scrape of the alert at the head of the fetched list ends: it threw
\* (the catch inserts an error row) or returned what it found for the
\* alert's first period (a row is inserted, slots go to sendBBBNotification).
CronScraped(h) ==
  /\ reqs[h].step = "scrape"
  /\ LET a == alerts[Head(reqs[h].queue)]
     IN  \E found \in SeqsUpTo({ [ time |-> TimeText(7, 30, "PM"),
                                   period |-> a.time_preferences[1] ] }, 1),
            message \in {NoError, E_timeout} :
           /\ message # NoError => found = << >>
           /\ history' = Append(history, CronRow(a, found, message))
           /\ IF found # << >>
                THEN reqs' = [reqs EXCEPT ![h] =
                       [@ EXCEPT !.step = "lookup", !.todo = BBBKeys(a, found)]]
                ELSE reqs' = [reqs EXCEPT ![h] =
                       [@ EXCEPT !.step = "loop", !.queue = Tail(@)]]
  /\ UNCHANGED << notified, emails, active, calls >>
  /\ ServerUnchanged

\* sendBBBNotification's loop test and duplicate lookup, in this handler.
ServerLookup(h) ==
  /\ reqs[h].step = "lookup"
  /\ IF reqs[h].todo = << >>
       THEN IF reqs[h].endpoint = "cronGET"
              THEN reqs' = [reqs EXCEPT ![h] =
                     [@ EXCEPT !.step = "loop", !.queue = Tail(@)]]
              ELSE Answer(h, 200)
       ELSE IF Head(reqs[h].todo) \in notified
              THEN reqs' = [reqs EXCEPT ![h] = [@ EXCEPT !.todo = Tail(@)]]
              ELSE Step(h, "send")
  /\ UNCHANGED << history, notified, emails, active, calls >>
  /\ ServerUnchanged

\* await resend.emails.send(...)
ServerSend(h) ==
  /\ reqs[h].step = "send"
  /\ emails' = Append(emails, Head(reqs[h].todo))
  /\ Step(h, "insert")
  /\ UNCHANGED << history, notified, active, calls >>
  /\ ServerUnchanged

\* await ...insert({...}): the unique constraint refuses a second row for
\* the key; the answer is not read.
ServerInsert(h) ==
  /\ reqs[h].step = "insert"
  /\ notified' = notified \cup {Head(reqs[h].todo)}
  /\ reqs' = [reqs EXCEPT ![h] = [@ EXCEPT !.step = "lookup", !.todo = Tail(@)]]
  /\ UNCHANGED << history, emails, active, calls >>
  /\ ServerUnchanged

\* PATCH /api/bbb/alerts?id=... with is_active: false in the body pauses
\* an alert: .update(body).
PatchActive ==
  /\ \E i \in 1 .. Len(alerts) :
       /\ active[i]
       /\ active' = [active EXCEPT ![i] = FALSE]
  /\ UNCHANGED << history, notified, emails, calls, reqs >>
  /\ ServerUnchanged

-----------------------------------------------------------------------------
(* Specification of the server *)

ServerInit ==
  /\ impl = "lib"
  /\ secret = TRUE
  /\ alerts = Batch(MaxBatch)
  /\ pc = "server"
  /\ idx = 1
  /\ attempt = 1
  /\ started = 0
  /\ failed = 0
  /\ waits = 0
  /\ lastError = NoError
  /\ slots = << >>
  /\ reports = << >>
  /\ history = << >>
  /\ apc = "idle"
  /\ browser = NoBrowser
  /\ live = {}
  /\ blocked = FALSE
  /\ err = NoError
  /\ displayed = 0
  /\ navI = 0
  /\ navEnd = "none"
  /\ clicked = NoControl
  /\ dateSelected = FALSE
  /\ trace = << >>
  /\ pIdx = 1
  /\ allSlots = << >>
  /\ results = << >>
  /\ shown = << >>
  /\ fn = "idle"
  /\ arg = Null
  /\ out = Null
  /\ notified = {}
  /\ emails = << >>
  /\ todo = << >>
  /\ mpc = "idle"
  /\ calls = 0
  /\ serverSecret \in {Null, ConfiguredSecret}
  /\ active = [ i \in 1 .. Len(alerts) |-> TRUE ]
  /\ reqs = [ h \in Handlers |-> IdleRequest ]

ServerNext ==
  \/ \E h \in Handlers : Receive(h)
  \/ \E h \in Handlers : CheckAuth(h)
  \/ \E h \in Handlers : ListAlerts(h)
  \/ \E h \in Handlers : PostAlert(h)
  \/ \E h \in Handlers : PostLog(h)
  \/ \E h \in Handlers : CronFetch(h)
  \/ \E h \in Handlers : CronLoop(h)
  \/ \E h \in Handlers : CronScraped(h)
  \/ \E h \in Handlers : ServerLookup(h)
  \/ \E h \in Handlers : ServerSend(h)
  \/ \E h \in Handlers : ServerInsert(h)
  \/ PatchActive

ServerSpec == ServerInit /\ [][ServerNext]_vars

-----------------------------------------------------------------------------
(* C21 *)

\* The header is exactly 'Bearer <the configured secret>'; no header is
\* when no secret is configured.
C21_Exact(header) ==
  /\ serverSecret # Null
  /\ header = "Bearer " \o serverSecret

\* C21: in every server configuration, a request to the cron or notify
\* endpoints whose Authorization header is not exactly 'Bearer <the
\* configured secret>' is answered 401, and handling it discloses no alert,
\* runs no scrape, inserts no history row and sends no email.
C21_SecretProtects ==
  [][ \A h \in Handlers :
        ( /\ reqs[h].step \notin {"idle", "done"}
          /\ ~C21_Exact(reqs[h].header)
          /\ reqs'[h] # reqs[h] )
        => /\ reqs'[h].step = "done"
           /\ reqs'[h].status = 401
           /\ reqs'[h].queue = << >>
           /\ UNCHANGED << history, emails, notified >>
    ]_vars

-----------------------------------------------------------------------------
(* C22 *)

\* C22: while an alert's is_active is false, no scrape is started for it,
\* no check-history row is written for it and no email is sent for it,
\* however the pause interleaves with fetching, scraping and reporting.
C22_PausedIsNotChecked ==
  [][ \A i \in 1 .. Len(alerts) :
        ~active[i] =>
          /\ Len(history') > Len(history) =>
               history'[Len(history')].alert_id # alerts[i].id
          /\ Len(emails') > Len(emails) =>
               emails'[Len(emails')][1] # alerts[i].id
          /\ \A h \in Handlers :
               (reqs[h].step = "loop" /\ reqs'[h].step = "scrape") =>
                 Head(reqs[h].queue) # alerts[i].id
    ]_vars

-----------------------------------------------------------------------------
(* C24 *)

\* C24: when two requests carrying slots for the same (alert, reservation
\* date, period) are handled concurrently, at most one email is sent for
\* that key: the emails sent all have different keys.
C24_ConcurrentReportsSendOnce ==
  Cardinality({ emails[i] : i \in 1 .. Len(emails) }) = Len(emails)

-----------------------------------------------------------------------------
(* C23 *)

-----------------------------------------------------------------------------
(* C25 *)

\* C25: the month loop of selectDate runs at most its fixed number of
\* iterations (12 in the library scrapers, 6 in the script) whatever the
\* calendar does: inside the loop the counter is below the maximum, and
\* every iteration either leaves the loop or raises the counter by one,
\* also when the label is unreadable or unparseable or the displayed month
\* does not change.
C25_MonthLoopBounded ==
  [][ apc = "nav" =>
        /\ impl \in BBBImpls
        /\ navI < MaxNavigations
        /\ MaxNavigations = (IF impl = "script" THEN 6 ELSE 12)
        /\ apc' = "nav" => (navI' = navI + 1 /\ navI' < MaxNavigations)
    ]_vars

\* The loop ran out of iterations with the calendar never leaving the month
\* it opened on.
C25_Witness ==
  /\ impl \in BBBImpls
  /\ apc = "pickDay"
  /\ navEnd = "exhausted"
  /\ displayed # TargetMonth

-----------------------------------------------------------------------------
(* C26 *)

\* C26: selectDate clicks a day control only if its visible label is exactly
\* the target day number and it is neither disabled nor aria-disabled: never
\* a disabled day, never a control whose label or date attribute merely
\* contains the target day's digits.
C26_OnlyExactEnabledDay ==
  (impl \in BBBImpls /\ clicked # NoControl) =>
    /\ clicked.label = "T"
    /\ clicked.dataDate # "T+"
    /\ clicked.disabled = Null
    /\ clicked.aria # "true"

-----------------------------------------------------------------------------
(* C27 *)

Distance(a, b) == IF a >= b THEN a - b ELSE b - a

\* C27: while the displayed month is not the target month, selectDate
\* clicks next when the displayed month is before the target and previous
\* when it is after: every click that changes the displayed month brings it
\* one step closer to the target month.
C27_ClicksApproachTarget ==
  [][ (impl \in BBBImpls /\ apc = "nav" /\ displayed' # displayed) =>
        Distance(displayed', TargetMonth) = Distance(displayed, TargetMonth) - 1
    ]_vars

-----------------------------------------------------------------------------
(* C28 *)

C28_Positions(ops, op) == { k \in 1 .. Len(ops) : ops[k] = op }

\* The slots the attempt holds for a period.
C28_SlotsOf(period) ==
  IF impl = "script"
    THEN SelectSeq(allSlots, LAMBDA s : s.period = period)
    ELSE SelectSeq(results, LAMBDA r : r.period = period /\ r.slots # << >>)

\* C28: for each requested period the no-availability signature is looked
\* for once, after the click on the period's tab and before any button is
\* scanned; when the signature is there the buttons are not scanned and the
\* period yields zero slots.
C28_SignatureBeforeScan ==
  impl \in BBBImpls =>
    \A i \in 1 .. Len(shown) :
      LET ops == shown[i].ops
          sig == C28_Positions(ops, "count signature")
      IN  /\ Cardinality(sig) = 1
          /\ \A c \in C28_Positions(ops, "click tab"), s \in sig : c < s
          /\ \A b \in C28_Positions(ops, "scan buttons"), s \in sig : s < b
          /\ shown[i].noAvail =>
               /\ C28_Positions(ops, "scan buttons") = {}
               /\ C28_SlotsOf(shown[i].period) = << >>
          /\ ~shown[i].noAvail => C28_Positions(ops, "scan buttons") # {}

C28_Witness ==
  /\ impl \in BBBImpls
  /\ apc = "returned"
  /\ Len(shown) = 2
  /\ shown[1].ops = << "click tab", "count signature" >>
  /\ shown[1].panel # << >>
  /\ shown[2].ops = << "click tab", "count signature", "scan buttons" >>

\* The strategy of setGuestCount whose control is the first one present.
C29_FirstPresent(w) ==
  IF w.select # "absent" THEN "select"
  ELSE IF w.plusVisible THEN "plus"
  ELSE IF w.input # "absent" THEN "input"
  ELSE IF w.button # "absent" THEN "button"
  ELSE "none"

\* C29: setGuestCount applies exactly one strategy, the first of dropdown,
\* increase button, numeric input, numbered button whose control is present:
\* every operation performed on the widget belongs to that strategy, and no
\* later strategy acts once one has started.
C29_OneStrategy ==
  fn = "setGuestCount" =>
    \A k \in 1 .. Len(out) : out[k].by = C29_FirstPresent(arg)

\* C29 counterexample: the "+" button was clicked, a later click rejected,
\* and the numeric input was filled as well.
C29_TwoStrategies ==
  /\ fn = "setGuestCount"
  /\ Len(out) > 1
  /\ out[1].by = "plus"
  /\ out[Len(out)].by = "input"

\* C30: in every scraper implementation a failure of the party-size step
\* does not fail the attempt: whatever happens to its controls, the attempt
\* goes on to the period step without an error.
C30_PartySizeNeverFails ==
  [][apc = "guests" => apc' = "advance2" /\ err' = NoError]_vars

\* The count the widget shows after the clicks of acts, starting at current.
C31_CountAfter(current, acts) ==
  current + Cardinality({ k \in 1 .. Len(acts) : acts[k].by = "plus" })
          - Cardinality({ k \in 1 .. Len(acts) : acts[k].by = "minus" })

\* C31: when the party size is set through the increase/decrease controls,
\* the number of clicks is the absolute difference between the wanted count
\* and the widget's current count, and the widget shows the wanted count
\* afterwards.
C31_ClicksAreTheDifference ==
  /\ fn = "libSetGuestCount" =>
       /\ Len(out) = IF arg.numGuests > arg.current
                       THEN arg.numGuests - arg.current
                       ELSE arg.current - arg.numGuests
       /\ C31_CountAfter(arg.current, out) = arg.numGuests
  /\ fn = "setGuestCount" /\ arg.select # "ok"
       /\ PlusDone(arg, Target.party_size) =>
       /\ Len(out) = IF Target.party_size > arg.current
                       THEN Target.party_size - arg.current
                       ELSE arg.current - Target.party_size
       /\ C31_CountAfter(arg.current, out) = Target.party_size

\* A step of a wizard transition that does not end with the error of the
\* advance click.
C32_AdvanceStep ==
  apc \in {"advance1", "advance2"} => err' # E_next

\* C32: at a wizard transition a missing advance control never fails the
\* attempt: the step after the date and the step after the party size do
\* not end with the error of the advance click.
C32_MissingAdvanceNeverFails == [][C32_AdvanceStep]_vars

\* The slots the running attempt has collected so far.
C33_Collected ==
  { allSlots[k] : k \in 1 .. Len(allSlots) }
    \cup UNION { { results[r].slots[k] : k \in 1 .. Len(results[r].slots) } :
                 r \in 1 .. Len(results) }

\* C33: every slot an attempt collects carries a period of the target's
\* requested period list, and in the library scrapers the period of the
\* result entry that holds it.
C33_PeriodsRequested ==
  impl \in BBBImpls /\ apc # "idle" =>
    /\ \A s \in C33_Collected :
         \E p \in 1 .. Len(Target.time_preferences) :
           s.period = Target.time_preferences[p]
    /\ \A r \in 1 .. Len(results) :
         \A k \in 1 .. Len(results[r].slots) :
           results[r].slots[k].period = results[r].period

\* C33 witness: an attempt on the second target, which asks for the afternoon
\* only, holds a slot and has finished its period loop.
C33_Witness ==
  /\ impl \in BBBImpls
  /\ apc = "finally"
  /\ idx = 2
  /\ C33_Collected # {}
  /\ \A s \in C33_Collected : s.period = "afternoon"

\* A step that reaches the creation of the page from the installation of the
\* init script.
C34_PageStep ==
  impl \in BBBImpls /\ apc # "newpage" /\ apc' = "newpage" => apc = "initscript"

\* C34: in every scrape attempt of the beauty-shop scrapers the fingerprint
\* overrides are installed on the context before the page is created, hence
\* before navigation: context.newPage() is reached only from a resolved
\* context.addInitScript().
C34_OverridesBeforePage == [][C34_PageStep]_vars

\* C35: for every current day and every valid weekday name getNextDayOfWeek
\* returns a date that falls on the named weekday and lies 1 to 7 days after
\* today; an invalid name raises an error.
C35_NextOccurrence ==
  fn = "getNextDayOfWeek" =>
    IF indexOf(arg.dayName) >= 0
      THEN /\ ~out.threw
           /\ out.offset \in 1 .. 7
           /\ (arg.todayDay + out.offset) % 7 = indexOf(arg.dayName)
      ELSE out.threw

\* C36: for each target of the script the number of attempts never exceeds
\* MAX_RETRIES, an attempt is started only as the first one or after a
\* failed one (none after a success), and a backoff wait follows every
\* failed attempt but the final one: on exhaustion MAX_RETRIES - 1 waits
\* were made.
C36_AttemptsBounded ==
  impl = "script" =>
    /\ started <= MAX_RETRIES
    /\ started \in {failed, failed + 1}
    /\ pc = "scraping" => started = failed + 1
    /\ waits \in {failed - 1, failed}
    /\ waits <= MAX_RETRIES - 1
    /\ failed = MAX_RETRIES => waits = MAX_RETRIES - 1
    /\ pc \in {"retry", "scraping"} /\ failed < MAX_RETRIES => waits = failed

\* C36 witness: the third attempt has just thrown; two waits were made and
\* the loop is about to be left.
C36_Witness ==
  /\ impl = "script"
  /\ pc = "retry"
  /\ attempt = MAX_RETRIES + 1
  /\ started = MAX_RETRIES
  /\ failed = MAX_RETRIES
  /\ waits = MAX_RETRIES - 1

\* C37: a notification record for a key exists only if an email for that key
\* was sent: a failed send inserts nothing, so the key is still absent when
\* a later report looks it up.
C37_RecordOnlyAfterEmail ==
  /\ notified \subseteq { emails[i] : i \in 1 .. Len(emails) }
  /\ mpc = "insert" => emails # << >> /\ emails[Len(emails)] = Head(todo)

\* C37 witness: two reports were handled, one email went out and the table
\* holds the record of exactly that email.
C37_Witness ==
  /\ mpc = "idle"
  /\ calls = 2
  /\ Len(emails) = 1
  /\ notified = { emails[1] }

\* C38: when scrapeBBBAvailability returns, its result list has exactly one
\* entry per requested period, in the order requested, each entry holding
\* that period's slots or that period's error.
C38_OneEntryPerPeriod ==
  impl \in LibImpls /\ apc = "returned" =>
    /\ Len(results) = Len(Target.time_preferences)
    /\ \A r \in 1 .. Len(results) :
         /\ results[r].period = Target.time_preferences[r]
         /\ results[r].error # NoError => results[r].slots = << >>

\* C38 witness: the scraper returned for the first target with an error
\* entry for the morning followed by an evening entry holding a slot.
C38_Witness ==
  /\ impl \in LibImpls
  /\ apc = "returned"
  /\ idx = 1
  /\ Len(results) = 2
  /\ results[1].error # NoError
  /\ results[2].error = NoError
  /\ results[2].slots # << >>

\* C39: every collected slot has a clock time that belongs to the period it
\* is reported under, and no time is reported under two periods of the same
\* attempt.
C39_SlotInItsPeriod ==
  impl \in BBBImpls /\ apc # "idle" =>
    /\ \A s \in C33_Collected : getTimePeriod(s.time) = s.period
    /\ \A s, t \in C33_Collected : s.time = t.time => s.period = t.period

====
